---- MODULE Spec2Model ----
(***************************************************************************)
(* A model of ewok: names and prefixes, blocks and votes, the validity     *)
(* engine, the current-block selector, the section-change rules, the node  *)
(* state machine, the network delay model and the consistency check.       *)
(***************************************************************************)
EXTENDS Integers, Sequences, FiniteSets, TLC

(***************************************************************************)
(* Bounds of the model.                                                    *)
(***************************************************************************)
\* Width of a name in bits (u64 in the program).
NameBits == 4
\* Steps the network harness runs for.
MaxNetStep == 4
\* Largest max_delay the network harness is built with.
MaxDelay == 3
\* Messages the network harness sends in one run.
MaxNetMsgs == 3
\* Steps the simulation driver runs for.
MaxStep == 12
\* events a schedule holds at most
MaxEvents == 2
\* Longest prefix of the sets of prefixes the functions are applied to.
MaxPrefixBits == 2
\* Valid blocks the selector is applied to at most.
MaxValid == 3

(***************************************************************************)
(* name.rs: names                                                          *)
(***************************************************************************)
Pow2(n) == 2 ^ n

Names == 0 .. (Pow2(NameBits) - 1)

\* A name given by its three leading bits, the rest zero (tests' short_name).
ShortName(k) == k * Pow2(NameBits - 3)

Min(S) == CHOOSE x \in S : \A y \in S : x <= y

Max(S) == CHOOSE x \in S : \A y \in S : x >= y

\* Name::bit: the i-th bit counted from the most significant one.
Bit(n, i) == (n \div Pow2(NameBits - 1 - i)) % 2

\* Name::common_prefix: leading zeros of the XOR of the two names.
common_prefix(a, b) ==
    Max({i \in 0 .. NameBits : (a \div Pow2(NameBits - i)) = (b \div Pow2(NameBits - i))})

\* Name::with_bit: an index past the width leaves the name unchanged.
with_bit(n, i, bit) ==
    IF i >= NameBits THEN n
    ELSE n - Bit(n, i) * Pow2(NameBits - 1 - i) + bit * Pow2(NameBits - 1 - i)

\* Name::with_flipped_bit
with_flipped_bit(n, i) ==
    IF i >= NameBits THEN n ELSE with_bit(n, i, 1 - Bit(n, i))

\* Name::set_remaining with val = false: keep the first n bits, zero the rest.
set_remaining(name, n) ==
    IF n < NameBits THEN (name \div Pow2(NameBits - n)) * Pow2(NameBits - n) ELSE name

\* XOR of two names, bit by bit.
Xor(a, b) ==
    LET RECURSIVE X(_)
        X(i) == IF i = NameBits THEN 0
                ELSE (IF Bit(a, i) = Bit(b, i) THEN 0 ELSE Pow2(NameBits - 1 - i)) + X(i + 1)
    IN X(0)

(***************************************************************************)
(* name.rs: prefixes                                                       *)
(***************************************************************************)
\* Prefix::new
Prefix(bit_count, name) == [bit_count |-> bit_count, name |-> set_remaining(name, bit_count)]

\* Prefix::empty
EmptyPrefix == Prefix(0, 0)

\* Prefix::short, with the byte cut to its three leading bits.
ShortPrefix(bit_count, k) == Prefix(bit_count, ShortName(k))

\* Prefix::pushed
pushed(p, bit) == [bit_count |-> p.bit_count + 1, name |-> with_bit(p.name, p.bit_count, bit)]

\* Prefix::popped
popped(p) ==
    IF p.bit_count > 0
    THEN [bit_count |-> p.bit_count - 1, name |-> with_bit(p.name, p.bit_count - 1, 0)]
    ELSE p

\* Prefix::is_compatible
is_compatible(p, q) ==
    LET i == common_prefix(p.name, q.name) IN i >= p.bit_count \/ i >= q.bit_count

\* Prefix::is_prefix_of
is_prefix_of(p, q) == common_prefix(p.name, q.name) >= p.bit_count

\* is_neighbour without the second comparison: every incompatible pair.
is_neighbour_any_diff(p, q) ==
    LET i == common_prefix(p.name, q.name) IN ~ (i >= p.bit_count \/ i >= q.bit_count)

\* Prefix::is_neighbour
is_neighbour(p, q) ==
    LET i == common_prefix(p.name, q.name) IN
    IF i >= p.bit_count \/ i >= q.bit_count THEN FALSE
    ELSE LET j == common_prefix(with_flipped_bit(p.name, i), q.name)
         IN j >= p.bit_count \/ j >= q.bit_count

\* Prefix::matches
matches(p, name) == common_prefix(p.name, name) >= p.bit_count

\* Prefix::sibling; NoPrefix stands for None.
NoPrefix == [bit_count |-> 0 - 1, name |-> 0]

sibling(p) ==
    IF p.bit_count > 0
    THEN [bit_count |-> p.bit_count, name |-> with_flipped_bit(p.name, p.bit_count - 1)]
    ELSE NoPrefix

\* Prefix::is_covered_by_impl
RECURSIVE is_covered_by_impl(_, _, _)
is_covered_by_impl(p, prefixes, max_prefix_len) ==
    \/ \E x \in prefixes : is_compatible(x, p) /\ x.bit_count <= p.bit_count
    \/ /\ p.bit_count <= max_prefix_len
       /\ is_covered_by_impl(pushed(p, 0), prefixes, max_prefix_len)
       /\ is_covered_by_impl(pushed(p, 1), prefixes, max_prefix_len)

\* is_covered_by without the descent into the two halves.
is_covered_by_shallow(p, prefixes) ==
    \E x \in prefixes : is_compatible(x, p) /\ x.bit_count <= p.bit_count

\* Prefix::is_covered_by
is_covered_by(p, prefixes) ==
    LET max_prefix_len == IF prefixes = {} THEN 0 ELSE Max({x.bit_count : x \in prefixes})
    IN is_covered_by_impl(p, prefixes, max_prefix_len)

(***************************************************************************)
(* block.rs: blocks and votes.  A BlockId is the hash of the block; the    *)
(* model uses the block itself as its id.                                  *)
(***************************************************************************)
Block(prefix, version, members) == [prefix |-> prefix, version |-> version, members |-> members]

Vote(from, to) == [from |-> from, to |-> to]

\* Ord of BTreeSet<Name>: lexicographic comparison of the ascending sequences.
SetGreater(A, B) ==
    LET D == (A \ B) \cup (B \ A) IN
    IF D = {} THEN FALSE
    ELSE LET m == Min(D) IN
         \/ m \in B /\ \E x \in A : x > m
         \/ m \in A /\ ~ \E x \in B : x > m

\* outranks with the higher version, not the shorter prefix, winning.
outranks_by_version(self, other) ==
    IF self.prefix = other.prefix
    THEN IF Cardinality(self.members) # Cardinality(other.members)
         THEN Cardinality(self.members) > Cardinality(other.members)
         ELSE SetGreater(self.members, other.members)
    ELSE /\ is_compatible(self.prefix, other.prefix)
         /\ self.version > other.version

\* Block::outranks
outranks(self, other) ==
    IF self.prefix = other.prefix
    THEN IF Cardinality(self.members) # Cardinality(other.members)
         THEN Cardinality(self.members) > Cardinality(other.members)
         ELSE SetGreater(self.members, other.members)
    ELSE /\ is_compatible(self.prefix, other.prefix)
         /\ self.prefix.bit_count < other.prefix.bit_count

\* add_node that keeps the version.
add_node_same_version(b, added) == Block(b.prefix, b.version, b.members \cup {added})

\* Block::add_node
add_node(b, added) == Block(b.prefix, b.version + 1, b.members \cup {added})

\* remove_node that keeps the version.
remove_node_same_version(b, removed) == Block(b.prefix, b.version, b.members \ {removed})

\* Block::remove_node (the caller passes a member)
remove_node(b, removed) == Block(b.prefix, b.version + 1, b.members \ {removed})

\* is_admissible_after without the merge case.
is_admissible_after_no_merge(self, other) ==
    IF self.version <= other.version THEN FALSE
    ELSE IF self.prefix = other.prefix
    THEN Cardinality((self.members \ other.members) \cup (other.members \ self.members)) = 1
    ELSE IF popped(self.prefix) = other.prefix
    THEN self.members = {n \in other.members : matches(self.prefix, n)}
    ELSE FALSE

\* Block::is_admissible_after, the BFT version
is_admissible_after(self, other) ==
    IF self.version <= other.version THEN FALSE
    ELSE IF self.prefix = other.prefix
    THEN Cardinality((self.members \ other.members) \cup (other.members \ self.members)) = 1
    ELSE IF popped(self.prefix) = other.prefix
    THEN self.members = {n \in other.members : matches(self.prefix, n)}
    ELSE IF popped(other.prefix) = self.prefix
    THEN other.members = {n \in self.members : matches(other.prefix, n)}
    ELSE FALSE

\* params.rs quorum
quorum(num_nodes) == (num_nodes \div 2) + 1

\* is_quorum_of with half of the members sufficing.
is_quorum_of_half(voters, members) ==
    Cardinality(voters \cap members) * 2 >= Cardinality(members)

\* is_quorum_of
is_quorum_of(voters, members) ==
    Cardinality(voters \cap members) * 2 > Cardinality(members)

\* The assertion of is_quorum_of: every voter is a member.
quorum_assert_fails(voters, members) ==
    Cardinality(voters) # Cardinality(voters \cap members)

\* Vote::is_quorum
is_quorum(vote, voters) == is_quorum_of(voters, vote.from.members)

\* Vote::is_witnessing: `to` is not admissible after `from`.
is_witnessing(vote) == ~ is_admissible_after(vote.to, vote.from)

\* Block::should_split: both halves have at least min_split_size members.
should_split(b, min_split_size) ==
    /\ Cardinality({n \in b.members : matches(pushed(b.prefix, 0), n)}) >= min_split_size
    /\ Cardinality({n \in b.members : matches(pushed(b.prefix, 1), n)}) >= min_split_size

\* Ord of Block: by prefix (bit_count, then name), version, members.
BlockLess(b, c) ==
    IF b.prefix.bit_count # c.prefix.bit_count THEN b.prefix.bit_count < c.prefix.bit_count
    ELSE IF b.prefix.name # c.prefix.name THEN b.prefix.name < c.prefix.name
    ELSE IF b.version # c.version THEN b.version < c.version
    ELSE SetGreater(c.members, b.members)

BlockLeq(b, c) == b = c \/ BlockLess(b, c)

\* The blocks of a set in ascending order.
RECURSIVE SortBlocks(_)
SortBlocks(S) ==
    IF S = {} THEN <<>>
    ELSE LET m == CHOOSE x \in S : \A y \in S : BlockLeq(x, y)
         IN <<m>> \o SortBlocks(S \ {m})

\* The names of a set in ascending order.
RECURSIVE SortNames(_)
SortNames(S) ==
    IF S = {} THEN <<>> ELSE <<Min(S)>> \o SortNames(S \ {Min(S)})

(***************************************************************************)
(* blocks.rs: the validity engine and the current-block selector.          *)
(* VoteCounts is a function from <<from, to>> to the set of voters.        *)
(***************************************************************************)
\* successors without the quorum filter.
successors_any_count(vote_counts, from) ==
    {[vote |-> Vote(from, e[2]), voters |-> vote_counts[e]] :
        e \in {e \in DOMAIN vote_counts :
                 /\ e[1] = from
                 /\ (is_neighbour(e[2].prefix, from.prefix) \/ is_admissible_after(e[2], from))}}

\* Blocks::successors
successors(vote_counts, from) ==
    {[vote |-> Vote(from, e[2]), voters |-> vote_counts[e]] :
        e \in {e \in DOMAIN vote_counts :
                 /\ e[1] = from
                 /\ (is_neighbour(e[2].prefix, from.prefix) \/ is_admissible_after(e[2], from))
                 /\ is_quorum(Vote(from, e[2]), vote_counts[e])}}

\* The edges on which successors evaluates is_quorum with a voter outside `from`.
successors_asserts(vote_counts, from) ==
    \E e \in DOMAIN vote_counts :
        /\ e[1] = from
        /\ (is_neighbour(e[2].prefix, from.prefix) \/ is_admissible_after(e[2], from))
        /\ quorum_assert_fails(vote_counts[e], from.members)

\* The while loop of Blocks::new_valid_blocks.
RECURSIVE frontier_loop(_, _, _, _, _)
frontier_loop(valid_blocks, vote_counts, frontier, visited_edges, new_valid_votes) ==
    IF frontier = {} THEN new_valid_votes
    ELSE LET visited == visited_edges \cup {f.vote : f \in frontier}
             new_frontier ==
                 UNION {{s \in successors(vote_counts, f.vote.to) : s.vote \notin visited} :
                           f \in frontier}
             newly == {f \in frontier : f.vote.to \notin valid_blocks}
         IN frontier_loop(valid_blocks, vote_counts, new_frontier, visited,
                          new_valid_votes \cup newly)

\* One pass of the while loop of Blocks::new_valid_blocks that does not filter
\* the successors by the visited edges.
frontier_step_unvisited(valid_blocks, vote_counts, st) ==
    LET visited == st.visited_edges \cup {f.vote : f \in st.frontier}
        new_frontier ==
            UNION {successors(vote_counts, f.vote.to) : f \in st.frontier}
        newly == {f \in st.frontier : f.vote.to \notin valid_blocks}
    IN [frontier |-> new_frontier,
        visited_edges |-> visited,
        new_valid_votes |-> st.new_valid_votes \cup newly]

\* One pass of the while loop of Blocks::new_valid_blocks over the loop state
\* st = [frontier, visited_edges, new_valid_votes].
frontier_step(valid_blocks, vote_counts, st) ==
    LET visited == st.visited_edges \cup {f.vote : f \in st.frontier}
        new_frontier ==
            UNION {{s \in successors(vote_counts, f.vote.to) : s.vote \notin visited} :
                      f \in st.frontier}
        newly == {f \in st.frontier : f.vote.to \notin valid_blocks}
    IN [frontier |-> new_frontier,
        visited_edges |-> visited,
        new_valid_votes |-> st.new_valid_votes \cup newly]

\* The frontier Blocks::new_valid_blocks starts its loop with: a dummy vote
\* for the source of every new vote that is a valid block.
initial_frontier(valid_blocks, new_votes) ==
    {[vote |-> Vote(v.from, v.from), voters |-> {}] :
        v \in {v \in new_votes : v.from \in valid_blocks}}

\* new_valid_blocks that stops at the successors of the new votes' sources.
new_valid_blocks_one_level(valid_blocks, vote_counts, new_votes) ==
    {s \in UNION {successors(vote_counts, v.from) :
                     v \in {v \in new_votes : v.from \in valid_blocks}} :
        s.vote.to \notin valid_blocks}

\* Blocks::new_valid_blocks
new_valid_blocks(valid_blocks, vote_counts, new_votes) ==
    frontier_loop(valid_blocks, vote_counts,
                  {[vote |-> Vote(v.from, v.from), voters |-> {}] :
                      v \in {v \in new_votes : v.from \in valid_blocks}},
                  {}, {})

\* The second loop of Blocks::compute_current_candidate_blocks, walking the
\* versions from the highest down.
RECURSIVE candidate_walk(_, _, _)
candidate_walk(valid_blocks, versions, current_blocks) ==
    IF versions = {} THEN current_blocks
    ELSE LET v == Max(versions)
             current_pfxs == {b.prefix : b \in current_blocks}
             new_current == {b \in valid_blocks :
                                b.version = v /\ ~ is_covered_by(b.prefix, current_pfxs)}
         IN candidate_walk(valid_blocks, versions \ {v}, current_blocks \cup new_current)

\* compute_current_candidate_blocks keeping the covered blocks.
compute_current_candidate_blocks_all(valid_blocks) == valid_blocks

\* Blocks::compute_current_candidate_blocks
compute_current_candidate_blocks(valid_blocks) ==
    candidate_walk(valid_blocks, {b.version : b \in valid_blocks}, {})

\* compute_current_blocks keeping the outranked candidates.
compute_current_blocks_unranked(candidate_blocks) == candidate_blocks

\* Blocks::compute_current_blocks
compute_current_blocks(candidate_blocks) ==
    {b \in candidate_blocks : ~ \E c \in candidate_blocks : outranks(c, b)}

\* our_blocks that returns every block, whether or not it contains the node.
our_blocks_any(blocks, our_name) == blocks

\* Blocks::our_blocks
our_blocks(blocks, our_name) == {b \in blocks : our_name \in b.members}

\* Blocks::section_blocks
section_blocks(blocks, our_name) == {b \in blocks : matches(b.prefix, our_name)}

\* Blocks::blocks_for_prefix
blocks_for_prefix(blocks, prefix) == {b \in blocks : b.prefix = prefix}

\* Blocks::predecessors
predecessors(block, rev_votes) ==
    {e[2] : e \in {e \in DOMAIN rev_votes :
                      e[1] = block /\ is_quorum(Vote(e[2], block), rev_votes[e])}}

\* nodes_in_any
nodes_in_any(blocks) == UNION {b.members : b \in blocks}

(***************************************************************************)
(* split.rs                                                                *)
(***************************************************************************)
\* Prefix::is_sibling_of_ancestor_of: the other block's prefix is a neighbour of,
\* or compatible with, the block's prefix.
is_sibling_of_ancestor_of(p, q) == is_neighbour(p, q) \/ is_compatible(p, q)

\* neighbours_ok
neighbours_ok(block, current_blocks, min_split_size) ==
    \A other_block \in current_blocks :
        is_sibling_of_ancestor_of(other_block.prefix, block.prefix)
            => Cardinality(other_block.members) >= min_split_size

\* split_block putting every member in the second half.
split_block_overlap(block, current_blocks, min_split_size) ==
    IF should_split(block, min_split_size) /\ neighbours_ok(block, current_blocks, min_split_size)
    THEN LET p0 == pushed(block.prefix, 0)
             p1 == pushed(block.prefix, 1)
         IN {Vote(block, Block(p0, block.version + 1,
                               {n \in block.members : matches(p0, n)})),
             Vote(block, Block(p1, block.version + 1, block.members))}
    ELSE {}

\* split_block
split_block(block, current_blocks, min_split_size) ==
    IF should_split(block, min_split_size) /\ neighbours_ok(block, current_blocks, min_split_size)
    THEN LET p0 == pushed(block.prefix, 0)
             p1 == pushed(block.prefix, 1)
             s0 == {n \in block.members : matches(p0, n)}
             s1 == {n \in block.members : ~ matches(p0, n)}
         IN {Vote(block, Block(p0, block.version + 1, s0)),
             Vote(block, Block(p1, block.version + 1, s1))}
    ELSE {}

\* split_blocks
split_blocks(current_blocks, our_name, min_split_size) ==
    UNION {split_block(block, current_blocks, min_split_size) :
              block \in our_blocks(current_blocks, our_name)}

(***************************************************************************)
(* merge.rs                                                                *)
(***************************************************************************)
\* merged_block keeping only the members of the first block.
merged_block_first(b0, b1) ==
    Block(popped(b0.prefix),
          (IF b0.version >= b1.version THEN b0.version ELSE b1.version) + 1,
          b0.members)

\* merged_block (the callers pass blocks with sibling prefixes)
merged_block(b0, b1) ==
    Block(popped(b0.prefix),
          (IF b0.version >= b1.version THEN b0.version ELSE b1.version) + 1,
          b0.members \cup b1.members)

\* find_small_blocks with no block ever below the threshold.
find_small_blocks_none(current_blocks, min_section_size) ==
    {b \in current_blocks : b.prefix.bit_count > 0 /\ Cardinality(b.members) < 0}

\* find_small_blocks
find_small_blocks(current_blocks, min_section_size) ==
    {b \in current_blocks :
        b.prefix.bit_count > 0 /\ Cardinality(b.members) < min_section_size}

\* lost_quorum with a strict comparison: fewer than half are connected.
lost_quorum_below_half(block, connections) ==
    Cardinality({n \in block.members : n \in connections}) < Cardinality(block.members) \div 2

\* lost_quorum
lost_quorum(block, connections) ==
    Cardinality({n \in block.members : n \in connections}) <= Cardinality(block.members) \div 2

\* merge_rule without the votes of the nodes outside the small block.
merge_rule_own_only(current_blocks, our_name, min_section_size) ==
    UNION {
        IF our_name \in candidate.members
        THEN {Vote(candidate, merged_block(candidate, block)) :
                 block \in blocks_for_prefix(current_blocks, sibling(candidate.prefix))}
        ELSE {}
        : candidate \in find_small_blocks(current_blocks, min_section_size)}

\* merge_rule that votes from every own block, wherever the small block is.
merge_rule_any_own_block(current_blocks, our_name, min_section_size) ==
    UNION {
        IF our_name \in candidate.members
        THEN {Vote(candidate, merged_block(candidate, block)) :
                 block \in blocks_for_prefix(current_blocks, sibling(candidate.prefix))}
        ELSE UNION {
               IF sibling(block.prefix) # NoPrefix
               THEN {Vote(block, merged_block(sibling_block, block)) :
                        sibling_block \in blocks_for_prefix(current_blocks, sibling(block.prefix))}
               ELSE {}
               : block \in our_blocks(current_blocks, our_name)}
        : candidate \in find_small_blocks(current_blocks, min_section_size)}

\* merge_rule
merge_rule(current_blocks, our_name, min_section_size) ==
    UNION {
        IF our_name \in candidate.members
        THEN {Vote(candidate, merged_block(candidate, block)) :
                 block \in blocks_for_prefix(current_blocks, sibling(candidate.prefix))}
        ELSE UNION {
               IF is_prefix_of(sibling(candidate.prefix), block.prefix)
                  /\ sibling(block.prefix) # NoPrefix
               THEN {Vote(block, merged_block(sibling_block, block)) :
                        sibling_block \in blocks_for_prefix(current_blocks, sibling(block.prefix))}
               ELSE {}
               : block \in our_blocks(current_blocks, our_name)}
        : candidate \in find_small_blocks(current_blocks, min_section_size)}

\* force_merge_rule
force_merge_rule(current_blocks, connections, our_name) ==
    UNION {
        {Vote(our_block, merged_block(candidate, our_block)) :
            our_block \in {b \in our_blocks(current_blocks, our_name) :
                              sibling(b.prefix) = candidate.prefix}}
        : candidate \in {b \in current_blocks : lost_quorum(b, connections)}}

\* merge_blocks
merge_blocks(current_blocks, connections, our_name, min_section_size) ==
    merge_rule(current_blocks, our_name, min_section_size)
        \cup force_merge_rule(current_blocks, connections, our_name)

(***************************************************************************)
(* Shared helpers for maps and sequences.                                  *)
(***************************************************************************)
\* entry(k).or_insert_with(..) followed by an assignment
FnPut(f, k, v) == (k :> v) @@ f

\* map.get(k), with a default for a missing key
FnGet(f, k, default) == IF k \in DOMAIN f THEN f[k] ELSE default

\* The concatenation of a sequence of sequences.
RECURSIVE Flatten(_)
Flatten(ss) ==
    IF ss = <<>> THEN <<>>
    ELSE IF Len(ss) = 1 THEN Head(ss)
    ELSE LET half == Len(ss) \div 2
         IN Flatten(SubSeq(ss, 1, half)) \o Flatten(SubSeq(ss, half + 1, Len(ss)))

SeqRange(q) == {q[i] : i \in 1 .. Len(q)}

\* An order on votes: by the `from` block, then by the `to` block.
VoteLeq(v, w) ==
    \/ BlockLess(v.from, w.from)
    \/ v.from = w.from /\ BlockLeq(v.to, w.to)

\* The votes of a set in ascending order.
RECURSIVE SortVotes(_)
SortVotes(S) ==
    IF S = {} THEN <<>>
    ELSE LET m == CHOOSE x \in S : \A y \in S : VoteLeq(x, y)
         IN <<m>> \o SortVotes(S \ {m})

\* The (vote, voters) pairs of a set in ascending order of their votes.
RECURSIVE SortVoted(_)
SortVoted(S) ==
    IF S = {} THEN <<>>
    ELSE LET m == CHOOSE x \in S : \A y \in S : VoteLeq(x.vote, y.vote)
         IN <<m>> \o SortVoted(S \ {m})

(***************************************************************************)
(* message.rs                                                              *)
(***************************************************************************)
Message(sender, recipient, content) ==
    [sender |-> sender, recipient |-> recipient, content |-> content]

VoteMsg(vote) == [type |-> "Vote", vote |-> vote]

VoteAgreedMsg(vv) == [type |-> "VoteAgreed", vote |-> vv.vote, voters |-> vv.voters]

VoteBundle(bundle) == [type |-> "VoteBundle", bundle |-> bundle]

RequestProof(block, current_blocks) ==
    [type |-> "RequestProof", block |-> block, current_blocks |-> current_blocks]

NoProof(block) == [type |-> "NoProof", block |-> block]

BootstrapMsg(vote_counts) == [type |-> "Bootstrap", vote_counts |-> vote_counts]

NodeJoined == [type |-> "NodeJoined"]

Connect == [type |-> "Connect"]

Disconnect == [type |-> "Disconnect"]

\* prefix_dist: XOR distance between the lower bounds of two prefixes.
prefix_dist(p1, p2) == Xor(p1.name, p2.name)

\* The closest block of min_by_key: the first of the least distance.
closest_block(b1, candidates) ==
    LET d == Min({prefix_dist(b1.prefix, b2.prefix) : b2 \in candidates})
        at_d == {b2 \in candidates : prefix_dist(b1.prefix, b2.prefix) = d}
    IN CHOOSE b2 \in at_d : \A b3 \in at_d : BlockLeq(b2, b3)

\* MessageContent::recipients
recipients(content, current_blocks, our_name) ==
    IF content.type = "Vote"
    THEN content.vote.from.members \cup content.vote.to.members
    ELSE IF content.type = "VoteAgreed"
    THEN LET from == content.vote.from
             to == content.vote.to
             compat == {b2 \in current_blocks :
                           is_compatible(b2.prefix, from.prefix)
                               \/ is_compatible(b2.prefix, to.prefix)}
         IN IF our_name \notin from.members /\ our_name \notin to.members THEN {}
            ELSE UNION {b1.members :
                    b1 \in {b1 \in current_blocks :
                              /\ (is_neighbour(b1.prefix, from.prefix)
                                     \/ is_neighbour(b1.prefix, to.prefix))
                              /\ compat # {}
                              /\ matches(closest_block(b1, compat).prefix, our_name)}}
    ELSE nodes_in_any(current_blocks)

(***************************************************************************)
(* node.rs: the node's state and its per-step update                       *)
(***************************************************************************)
MESSAGE_FILTER_LEN == 1024

\* params.rs NodeParams, with the default shutdown timeout and conflict limit.
NodeParams(min_section_size, split_buffer, join_timeout) ==
    [min_section_size |-> min_section_size,
     split_buffer |-> split_buffer,
     join_timeout |-> join_timeout,
     self_shutdown_timeout |-> 100,
     max_conflicting_blocks |-> 20]

\* Node::new
NewNode(name, current_blocks, params, at) ==
    [our_name |-> name,
     valid_blocks |-> current_blocks,
     current_candidate_blocks |-> current_blocks,
     current_blocks |-> current_blocks,
     prev_current_blocks |-> {},
     vote_counts |-> <<>>,
     rev_vote_counts |-> <<>>,
     recent_votes |-> {},
     connections |-> nodes_in_any(current_blocks),
     connect_requests |-> {},
     candidates |-> <<>>,
     message_filter |-> <<>>,
     params |-> params,
     step_created |-> at]

\* Node::min_split_size
min_split_size(n) == n.params.min_section_size + n.params.split_buffer

\* Candidate::is_recent
is_recent(step_added, join_timeout, at) == step_added + join_timeout >= at

\* add_vote replacing the recorded voters instead of extending them.
add_vote_overwrite(n, vote, voted_for) ==
    LET e == <<vote.from, vote.to>>
        r == <<vote.to, vote.from>>
    IN [n EXCEPT !.recent_votes = @ \cup {vote},
                 !.vote_counts = FnPut(@, e, voted_for),
                 !.rev_vote_counts = FnPut(@, r, voted_for)]

\* add_vote copying the voters to the reverse index before extending them.
add_vote_stale_rev(n, vote, voted_for) ==
    LET e == <<vote.from, vote.to>>
        r == <<vote.to, vote.from>>
        voters == FnGet(n.vote_counts, e, {}) \cup voted_for
        rev_voters == FnGet(n.rev_vote_counts, r, {}) \cup FnGet(n.vote_counts, e, {})
    IN [n EXCEPT !.recent_votes = @ \cup {vote},
                 !.vote_counts = FnPut(@, e, voters),
                 !.rev_vote_counts = FnPut(@, r, rev_voters)]

\* add_vote that leaves the reverse index as it is.
add_vote_no_rev(n, vote, voted_for) ==
    LET e == <<vote.from, vote.to>>
        voters == FnGet(n.vote_counts, e, {}) \cup voted_for
    IN [n EXCEPT !.recent_votes = @ \cup {vote},
                 !.vote_counts = FnPut(@, e, voters)]

\* Node::add_vote
add_vote(n, vote, voted_for) ==
    LET e == <<vote.from, vote.to>>
        r == <<vote.to, vote.from>>
        voters == FnGet(n.vote_counts, e, {}) \cup voted_for
        rev_voters == FnGet(n.rev_vote_counts, r, {}) \cup voters
    IN [n EXCEPT !.recent_votes = @ \cup {vote},
                 !.vote_counts = FnPut(@, e, voters),
                 !.rev_vote_counts = FnPut(@, r, rev_voters)]

\* add_vote for each (vote, voters) pair of a sequence, in order
RECURSIVE add_votes(_, _)
add_votes(n, vvs) ==
    IF vvs = <<>> THEN n
    ELSE IF Len(vvs) = 1 THEN add_vote(n, Head(vvs).vote, Head(vvs).voters)
    ELSE LET half == Len(vvs) \div 2
             n1 == add_votes(n, SubSeq(vvs, 1, half))
         IN add_votes(n1, SubSeq(vvs, half + 1, Len(vvs)))

\* update_current_blocks that starts from the pruned current blocks instead of
\* the candidates kept from the last update.
update_current_blocks_from_current(n, new_votes) ==
    LET potentially_current == n.current_blocks \cup {vv.vote.to : vv \in new_votes}
        candidates == compute_current_candidate_blocks(potentially_current)
    IN [n EXCEPT !.current_candidate_blocks = candidates,
                 !.prev_current_blocks = n.current_blocks,
                 !.current_blocks = compute_current_blocks(candidates)]

\* update_current_blocks that selects among the targets of the new votes alone.
update_current_blocks_new_only(n, new_votes) ==
    LET potentially_current == {vv.vote.to : vv \in new_votes}
        candidates == compute_current_candidate_blocks(potentially_current)
    IN [n EXCEPT !.current_candidate_blocks = candidates,
                 !.prev_current_blocks = n.current_blocks,
                 !.current_blocks = compute_current_blocks(candidates)]

\* Node::update_current_blocks
update_current_blocks(n, new_votes) ==
    LET potentially_current == n.current_candidate_blocks \cup {vv.vote.to : vv \in new_votes}
        candidates == compute_current_candidate_blocks(potentially_current)
    IN [n EXCEPT !.current_candidate_blocks = candidates,
                 !.prev_current_blocks = n.current_blocks,
                 !.current_blocks = compute_current_blocks(candidates)]

\* The newly valid votes Node::update_valid_blocks computes and returns.
new_valid_votes_of(n) == new_valid_blocks(n.valid_blocks, n.vote_counts, n.recent_votes)

\* Node::update_valid_blocks
update_valid_blocks(n) ==
    LET new_valid_votes == new_valid_votes_of(n)
    IN update_current_blocks(
           [n EXCEPT !.recent_votes = {},
                     !.valid_blocks = @ \cup {vv.vote.to : vv \in new_valid_votes}],
           new_valid_votes)

\* The counts of Node::check_conflicting_block_count: the valid blocks of each
\* (prefix, version) pair.
conflicting_counts(n) ==
    [key \in {<<b.prefix, b.version>> : b \in n.valid_blocks} |->
        Cardinality({b \in n.valid_blocks : <<b.prefix, b.version>> = key})]

\* check_conflicting_block_count with the comparison turned round.
check_conflicting_block_count_below(n) ==
    \E key \in DOMAIN conflicting_counts(n) :
        conflicting_counts(n)[key] <= n.params.max_conflicting_blocks

\* Node::check_conflicting_block_count panics: a count reaches
\* max_conflicting_blocks while the valid blocks are counted one by one.
check_conflicting_block_count(n) ==
    \E key \in DOMAIN conflicting_counts(n) :
        conflicting_counts(n)[key] >= n.params.max_conflicting_blocks

\* Node::prune_split_blocks; `first` is the block section_blocks(..)[0]
prune_split_blocks(n, first) ==
    LET our_prefix == first.prefix
    IN [n EXCEPT !.current_blocks =
           {b \in @ : is_neighbour(b.prefix, our_prefix) \/ b.prefix = our_prefix}]

\* Node::is_candidate
is_candidate(n, name, at) ==
    /\ name \in DOMAIN n.candidates
    /\ is_recent(n.candidates[name], n.params.join_timeout, at)
    /\ name \in n.connections

\* Node::nodes_to_add: the oldest connected candidate that has not timed out.
nodes_to_add(n, at) ==
    LET live == {c \in DOMAIN n.candidates :
                    c \in n.connections /\ is_recent(n.candidates[c], n.params.join_timeout, at)}
    IN IF live = {} THEN {}
       ELSE LET oldest == Min({n.candidates[c] : c \in live})
            IN {Min({c \in live : n.candidates[c] = oldest})}

\* Node::connects_and_disconnects, as [node, msgs]
connects_and_disconnects(n, at) ==
    LET neighbours == nodes_in_any(n.current_blocks)
        n1 == [n EXCEPT !.candidates = [c \in (DOMAIN @) \ neighbours |-> @[c]]]
        to_disconnect == {c \in n1.connections : c \notin neighbours /\ ~ is_candidate(n1, c, at)}
        n2 == [n1 EXCEPT !.connections = @ \ to_disconnect,
                         !.connect_requests = @ \ to_disconnect]
        to_connect == {c \in neighbours :
                          c \notin n2.connections /\ c \notin n2.connect_requests
                              /\ c # n.our_name}
        n3 == [n2 EXCEPT !.connect_requests = @ \cup to_connect]
        connects == [i \in 1 .. Cardinality(to_connect) |->
                        Message(n.our_name, SortNames(to_connect)[i], Connect)]
        disconnects == [i \in 1 .. Cardinality(to_disconnect) |->
                           Message(n.our_name, SortNames(to_disconnect)[i], Disconnect)]
    IN [node |-> n3, msgs |-> connects \o disconnects]

\* Node::broadcast of one content
broadcast_one(n, content, at) ==
    LET to == (recipients(content, n.current_blocks, n.our_name) \cup nodes_to_add(n, at))
                  \ {n.our_name}
    IN [i \in 1 .. Cardinality(to) |-> Message(n.our_name, SortNames(to)[i], content)]

\* Node::broadcast
broadcast(n, contents, at) ==
    Flatten([i \in 1 .. Len(contents) |-> broadcast_one(n, contents[i], at)])

\* update_state that returns no agreement messages.
update_state_no_agreement(n, at, first) ==
    LET n1 == update_valid_blocks(n)
        n2 == prune_split_blocks(n1, first)
        cd == connects_and_disconnects(n2, at)
    IN [node |-> cd.node, msgs |-> cd.msgs]

\* Node::update_state, as [node, msgs]; `first` is the section block that
\* prune_split_blocks indexes.
update_state(n, at, first) ==
    LET new_valid_votes == new_valid_votes_of(n)
        n1 == update_valid_blocks(n)
        agreed == SortVoted({vv \in new_valid_votes : ~ is_witnessing(vv.vote)})
        messages == broadcast(n1, [i \in 1 .. Len(agreed) |-> VoteAgreedMsg(agreed[i])], at)
        n2 == prune_split_blocks(n1, first)
        cd == connects_and_disconnects(n2, at)
    IN [node |-> cd.node, msgs |-> messages \o cd.msgs]

(***************************************************************************)
(* node.rs: constructing and broadcasting new votes                        *)
(***************************************************************************)
\* could_be_added without the test that the block should split.
could_be_added_any_size(n, node, block) ==
    /\ node \notin block.members
    /\ matches(block.prefix, node)

\* could_be_added without the test that the prefix matches the node.
could_be_added_any_prefix(n, node, block) ==
    /\ node \notin block.members
    /\ ~ should_split(block, min_split_size(n))

\* Node::could_be_added
could_be_added(n, node, block) ==
    /\ node \notin block.members
    /\ matches(block.prefix, node)
    /\ ~ should_split(block, min_split_size(n))

\* Node::nodes_to_drop
nodes_to_drop(n, current_block) ==
    {peer \in current_block.members :
        peer # n.our_name /\ peer \notin n.connections /\ peer \notin DOMAIN n.candidates}

\* witness_votes that also votes for the new current blocks of the own section.
witness_votes_any_section(n) ==
    {Vote(our_block, block) :
        our_block \in our_blocks(n.current_blocks, n.our_name),
        block \in n.current_blocks \ n.prev_current_blocks}

\* Node::witness_votes
witness_votes(n) ==
    {Vote(our_block, block) :
        our_block \in our_blocks(n.current_blocks, n.our_name),
        block \in {b \in n.current_blocks \ n.prev_current_blocks :
                      ~ matches(b.prefix, n.our_name)}}

\* The votes of Node::construct_new_votes that add a candidate.
add_votes_of(n, at) ==
    {Vote(bc[1], add_node(bc[1], bc[2])) :
        bc \in {bc \in our_blocks(n.current_blocks, n.our_name) \X nodes_to_add(n, at) :
                   could_be_added(n, bc[2], bc[1])}}

\* The votes of Node::construct_new_votes that drop a disconnected member.
drop_votes_of(n) ==
    UNION {{Vote(b, remove_node(b, peer)) : peer \in nodes_to_drop(n, b)} :
              b \in our_blocks(n.current_blocks, n.our_name)}

\* Node::construct_new_votes: add, drop, split, merge and witness votes, in
\* that order.
construct_new_votes(n, at) ==
    SortVotes(add_votes_of(n, at))
        \o SortVotes(drop_votes_of(n))
        \o SortVotes(split_blocks(n.current_blocks, n.our_name, min_split_size(n)))
        \o SortVotes(merge_blocks(n.current_blocks, n.connections, n.our_name,
                                  n.params.min_section_size))
        \o SortVotes(witness_votes(n))

\* Node::filter_messages, as [node, msgs]
RECURSIVE filter_messages(_, _)
filter_messages(n, msgs) ==
    IF msgs = <<>> THEN [node |-> n, msgs |-> <<>>]
    ELSE IF Len(msgs) = 1
    THEN LET message == Head(msgs)
             pass == \/ message.content = Connect
                     \/ message.content = Disconnect
                     \/ message \notin SeqRange(n.message_filter)
             popped_filter == IF Len(n.message_filter) = MESSAGE_FILTER_LEN
                              THEN Tail(n.message_filter) ELSE n.message_filter
         IN IF pass
            THEN [node |-> [n EXCEPT !.message_filter = Append(popped_filter, message)],
                  msgs |-> <<message>>]
            ELSE [node |-> n, msgs |-> <<>>]
    ELSE LET half == Len(msgs) \div 2
             first == filter_messages(n, SubSeq(msgs, 1, half))
             rest == filter_messages(first.node, SubSeq(msgs, half + 1, Len(msgs)))
         IN [node |-> rest.node, msgs |-> first.msgs \o rest.msgs]

\* broadcast_new_votes that returns the messages without filtering them.
broadcast_new_votes_unfiltered(n, at) ==
    LET votes == construct_new_votes(n, at)
        n1 == add_votes(n, [i \in 1 .. Len(votes) |->
                               [vote |-> votes[i], voters |-> {n.our_name}]])
        vote_msgs == [i \in 1 .. Len(votes) |-> VoteMsg(votes[i])]
    IN [node |-> n1, msgs |-> broadcast(n1, vote_msgs, at)]

\* broadcast_new_votes that broadcasts the votes without casting them.
broadcast_new_votes_not_cast(n, at) ==
    LET votes == construct_new_votes(n, at)
        vote_msgs == [i \in 1 .. Len(votes) |-> VoteMsg(votes[i])]
    IN filter_messages(n, broadcast(n, vote_msgs, at))

\* Node::broadcast_new_votes, as [node, msgs]
broadcast_new_votes(n, at) ==
    LET votes == construct_new_votes(n, at)
        n1 == add_votes(n, [i \in 1 .. Len(votes) |->
                               [vote |-> votes[i], voters |-> {n.our_name}]])
        vote_msgs == [i \in 1 .. Len(votes) |-> VoteMsg(votes[i])]
    IN filter_messages(n1, broadcast(n1, vote_msgs, at))

(***************************************************************************)
(* node.rs: proofs and the message handler                                 *)
(***************************************************************************)
\* Node::apply_bootstrap_msg
apply_bootstrap_msg(n, vote_counts) ==
    add_votes(n, SortVoted({[vote |-> Vote(e[1], e[2]), voters |-> vote_counts[e]] :
                               e \in DOMAIN vote_counts}))

\* Node::request_proof
request_proof(n, block, node) ==
    IF \/ block \in n.valid_blocks
       \/ n.current_blocks = {}
       \/ block.version > Max({b.version : b \in n.current_blocks}) + 10
    THEN <<>>
    ELSE <<Message(n.our_name, node, RequestProof(block, n.current_blocks))>>

\* Node::check_path
check_path(current_blocks, p) ==
    LET b0 == p[Len(p)]
    IN \/ b0 \in current_blocks
       \/ \E b \in current_blocks : is_compatible(b.prefix, b0.prefix) /\ b.version > b0.version

\* Node::bundle_predecessors
bundle_predecessors(n, block, node) ==
    Message(n.our_name, node,
            VoteBundle(SortVoted({[vote |-> Vote(b, block),
                                   voters |-> n.rev_vote_counts[<<block, b>>]] :
                                     b \in predecessors(block, n.rev_vote_counts)})))

\* The while loop of Node::construct_proof, as [paths, had_predecessors].
RECURSIVE proof_paths(_, _, _, _)
proof_paths(n, current_blocks, paths, had_predecessors) ==
    IF had_predecessors /\ ~ \E p \in paths : check_path(current_blocks, p)
    THEN LET new_paths ==
                 UNION {{Append(p, prev) :
                            prev \in predecessors(p[Len(p)], n.rev_vote_counts) \ SeqRange(p)} :
                           p \in paths}
         IN proof_paths(n, current_blocks, new_paths, new_paths # {})
    ELSE [paths |-> paths, had_predecessors |-> had_predecessors]

\* The path Node::construct_proof finds: the first that passes check_path.
found_path(n, block, current_blocks) ==
    LET r == proof_paths(n, current_blocks, {<<block>>}, TRUE)
    IN IF r.had_predecessors
       THEN CHOOSE p \in r.paths : check_path(current_blocks, p)
       ELSE <<>>

\* construct_proof without path.reverse(): the edges of the path newest first.
construct_proof_unreversed(n, block, current_blocks, node) ==
    IF block \notin n.valid_blocks THEN Message(n.our_name, node, NoProof(block))
    ELSE IF check_path(current_blocks, <<block>>) THEN bundle_predecessors(n, block, node)
    ELSE LET path == found_path(n, block, current_blocks)
             k == Len(path)
         IN IF k < 2 THEN Message(n.our_name, node, NoProof(block))
            ELSE Message(n.our_name, node,
                     VoteBundle([i \in 1 .. k - 1 |->
                         [vote |-> Vote(path[i + 1], path[i]),
                          voters |-> n.vote_counts[<<path[i + 1], path[i]>>]]]))

\* Node::construct_proof
construct_proof(n, block, current_blocks, node) ==
    IF block \notin n.valid_blocks THEN Message(n.our_name, node, NoProof(block))
    ELSE IF check_path(current_blocks, <<block>>) THEN bundle_predecessors(n, block, node)
    ELSE LET path == found_path(n, block, current_blocks)
             k == Len(path)
         IN IF k < 2 THEN Message(n.our_name, node, NoProof(block))
            ELSE Message(n.our_name, node,
                     VoteBundle([i \in 1 .. k - 1 |->
                         [vote |-> Vote(path[k + 1 - i], path[k - i]),
                          voters |-> n.vote_counts[<<path[k + 1 - i], path[k - i]>>]]]))

\* The unwrap of Node::construct_proof on an edge of the path that the forward
\* index lacks.
construct_proof_panics(n, block, current_blocks) ==
    /\ block \in n.valid_blocks
    /\ ~ check_path(current_blocks, <<block>>)
    /\ LET path == found_path(n, block, current_blocks)
           k == Len(path)
       IN \E i \in 1 .. k - 1 : <<path[k + 1 - i], path[k - i]>> \notin DOMAIN n.vote_counts

\* Node::bundle_base
bundle_base(bundle) ==
    LET block_ids == {bundle[i].vote.from : i \in 1 .. Len(bundle)}
                         \cup {bundle[i].vote.to : i \in 1 .. Len(bundle)}
    IN SortBlocks({b \in block_ids :
           ~ \E i \in 1 .. Len(bundle) :
                 bundle[i].vote.to = b /\ is_quorum(bundle[i].vote, bundle[i].voters)})

\* The assertion of is_quorum_of that Node::bundle_base reaches.
bundle_base_asserts(bundle) ==
    \E i \in 1 .. Len(bundle) :
        /\ quorum_assert_fails(bundle[i].voters, bundle[i].vote.from.members)
        /\ \A j \in 1 .. i - 1 :
              ~ (bundle[j].vote.to = bundle[i].vote.to
                    /\ is_quorum(bundle[j].vote, bundle[j].voters))

\* The Disconnect arm that leaves connect_requests alone.
handle_disconnect_keep_request(n, from) ==
    [node |-> [n EXCEPT !.connections = @ \ {from}], msgs |-> <<>>]

\* The Disconnect arm of Node::handle_message, as [node, msgs]
handle_disconnect(n, from) ==
    [node |-> [n EXCEPT !.connections = @ \ {from},
                        !.connect_requests = @ \ {from}],
     msgs |-> <<>>]

\* The Connect arm without the record of the request it answers with.
handle_connect_no_request(n, from) ==
    [node |-> [n EXCEPT !.connections = @ \cup {from}],
     msgs |-> IF from \notin n.connect_requests
              THEN <<Message(n.our_name, from, Connect)>> ELSE <<>>]

\* The Connect arm of Node::handle_message, as [node, msgs]
handle_connect(n, from) ==
    [node |-> [n EXCEPT !.connections = @ \cup {from},
                        !.connect_requests = @ \cup {from}],
     msgs |-> IF from \notin n.connect_requests
              THEN <<Message(n.our_name, from, Connect)>> ELSE <<>>]

\* The match of Node::handle_message, as [node, msgs], before the filter.
handle_content(n, message, at) ==
    LET c == message.content
        from == message.sender
    IN IF c.type = "NodeJoined"
       THEN LET n1 == [n EXCEPT !.candidates = FnPut(@, from, at),
                                !.connections = @ \cup {from}]
            IN [node |-> n1,
                msgs |-> <<Message(n.our_name, from, Connect),
                           Message(n.our_name, from, BootstrapMsg(n1.vote_counts))>>]
       ELSE IF c.type = "Vote"
       THEN [node |-> add_vote(n, c.vote, {from}),
             msgs |-> request_proof(n, c.vote.from, from)]
       ELSE IF c.type = "VoteAgreed"
       THEN [node |-> add_vote(n, c.vote, c.voters),
             msgs |-> request_proof(n, c.vote.from, from)]
       ELSE IF c.type = "VoteBundle"
       THEN LET base == bundle_base(c.bundle)
            IN [node |-> add_votes(n, c.bundle),
                msgs |-> Flatten([i \in 1 .. Len(base) |-> request_proof(n, base[i], from)])]
       ELSE IF c.type = "Bootstrap"
       THEN [node |-> apply_bootstrap_msg(n, c.vote_counts), msgs |-> <<>>]
       ELSE IF c.type = "Disconnect" THEN handle_disconnect(n, from)
       ELSE IF c.type = "Connect" THEN handle_connect(n, from)
       ELSE IF c.type = "RequestProof"
       THEN [node |-> n,
             msgs |-> <<construct_proof(n, c.block, c.current_blocks, from)>>]
       ELSE [node |-> n, msgs |-> <<>>]

\* Node::handle_message, as [node, msgs]
handle_message(n, message, at) ==
    LET h == handle_content(n, message, at)
    IN filter_messages(h.node, h.msgs)

\* The panics Node::handle_message can reach.
handle_message_panics(n, message) ==
    \/ message.content.type = "VoteBundle" /\ bundle_base_asserts(message.content.bundle)
    \/ /\ message.content.type = "RequestProof"
       /\ construct_proof_panics(n, message.content.block, message.content.current_blocks)

\* Node::should_shutdown
should_shutdown(n, at) ==
    LET ours == our_blocks(n.current_blocks, n.our_name)
        timeout_elapsed == at >= n.step_created + n.params.self_shutdown_timeout
    IN timeout_elapsed
          /\ (ours = {}
                 \/ Cardinality(n.connections) * 2
                        < Cardinality((CHOOSE b \in ours :
                              \A c \in ours : BlockLeq(b, c)).members))

(***************************************************************************)
(* State                                                                   *)
(***************************************************************************)
VARIABLES
    \* Network.messages: (sender, recipient) -> step sent -> messages
    messages,
    \* Network.max_delay
    max_delay,
    \* the driver's step counter
    step,
    \* where the driver is within the step
    pc,
    \* the messages returned by the last call of Network::receive
    delivered,
    \* every message a receive call returned, with the step of that call
    net_log,
    \* messages sent so far by the network harness
    net_sent,
    \* "none", or the assertion that aborted the program
    panicked,
    \* Simulation.nodes: name -> Node, the live nodes
    nodes,
    \* the blocks the simulation was started from, given to every new node
    genesis_set,
    \* Simulation.node_params
    node_params,
    \* the live nodes the driver has yet to update in this step
    todo,
    \* events the schedule may still hold
    events_left,
    \* consecutive steps that began with an empty network queue
    quiet_steps,
    \* names of the nodes removed so far
    removed,
    \* EventSchedule.schedule: the events yet to occur, with their steps
    event_schedule,
    \* name -> the messages the node has returned to the driver, in order
    emitted,
    \* the arguments a pure function of the program is applied to
    fn_in,
    \* what the function returned
    fn_out

net_vars == <<messages, max_delay, step, pc, delivered, net_log, net_sent, panicked>>

sys_vars == <<nodes, genesis_set, node_params, todo, events_left, quiet_steps, removed,
              event_schedule, emitted>>

vars == <<messages, max_delay, step, pc, delivered, net_log, net_sent, panicked,
          nodes, genesis_set, node_params, todo, events_left, quiet_steps, removed,
          event_schedule, emitted, fn_in, fn_out>>

fn_vars == <<fn_in, fn_out>>

\* No function is being applied.
FnIdle == fn_in = [kind |-> "none"] /\ fn_out = [done |-> FALSE]

(***************************************************************************)
(* network.rs                                                              *)
(***************************************************************************)
ConnKey(c) == c[1] * Pow2(NameBits) + c[2]

\* The connections of a map in ascending key order (BTreeMap iteration).
SortConns(S) ==
    [i \in 1 .. Cardinality(S) |->
        CHOOSE x \in S : Cardinality({y \in S : ConnKey(y) < ConnKey(x)}) = i - 1]

\* Network::delivery_probability: 1 - 0.05^(1/max_delay) is 1 for max_delay = 0
\* and strictly between 0 and 1 otherwise.
\* The values (1..n).take_while(do_with_probability(p)).last().unwrap_or(0) can take.
NumDelivered(n, maxdelay) == IF maxdelay = 0 THEN {n} ELSE 0 .. n

\* conn_walk without the early return when messages remain at a step.
RECURSIVE conn_walk_no_break(_, _, _, _, _)
conn_walk_no_break(conn_messages, keys, maxdelay, start_step, end_step) ==
    IF keys = {} THEN {[msgs |-> conn_messages, deliver |-> <<>>]}
    ELSE
      LET step_sent == Min(keys)
          bucket == conn_messages[step_sent]
          num_messages == Len(bucket)
      IN IF step_sent = start_step /\ end_step >= maxdelay
         THEN {[msgs |-> r.msgs, deliver |-> bucket \o r.deliver] :
                  r \in conn_walk_no_break([conn_messages EXCEPT ![step_sent] = <<>>],
                                  keys \ {step_sent}, maxdelay, start_step, end_step)}
         ELSE UNION {
              LET leave == SubSeq(bucket, num_messages - num_delivered + 1, num_messages)
                  deliver == SubSeq(bucket, 1, num_messages - num_delivered)
                  after == [conn_messages EXCEPT ![step_sent] = leave]
              IN {[msgs |-> r.msgs, deliver |-> deliver \o r.deliver] :
                          r \in conn_walk_no_break(after, keys \ {step_sent},
                                          maxdelay, start_step, end_step)}
              : num_delivered \in NumDelivered(num_messages, maxdelay)}

\* The loop of Network::receive_from_conn over the buckets `keys`, in ascending
\* order; every outcome the random draws allow, as [msgs, deliver].
RECURSIVE conn_walk(_, _, _, _, _)
conn_walk(conn_messages, keys, maxdelay, start_step, end_step) ==
    IF keys = {} THEN {[msgs |-> conn_messages, deliver |-> <<>>]}
    ELSE
      LET step_sent == Min(keys)
          bucket == conn_messages[step_sent]
          num_messages == Len(bucket)
      IN IF step_sent = start_step /\ end_step >= maxdelay
         THEN \* messages.drain(..); continue
              {[msgs |-> r.msgs, deliver |-> bucket \o r.deliver] :
                  r \in conn_walk([conn_messages EXCEPT ![step_sent] = <<>>],
                                  keys \ {step_sent}, maxdelay, start_step, end_step)}
         ELSE UNION {
              LET \* leave = messages.split_off(num_messages - num_delivered)
                  leave == SubSeq(bucket, num_messages - num_delivered + 1, num_messages)
                  \* deliver = mem::replace(messages, leave)
                  deliver == SubSeq(bucket, 1, num_messages - num_delivered)
                  after == [conn_messages EXCEPT ![step_sent] = leave]
              IN IF leave # <<>>
                 THEN {[msgs |-> after, deliver |-> deliver]}
                 ELSE {[msgs |-> r.msgs, deliver |-> deliver \o r.deliver] :
                          r \in conn_walk(after, keys \ {step_sent},
                                          maxdelay, start_step, end_step)}
              : num_delivered \in NumDelivered(num_messages, maxdelay)}

\* Network::receive_from_conn; `undelivered` is what the debug assertion counts.
receive_from_conn(conn_messages, maxdelay, start_step, end_step) ==
    conn_walk(conn_messages,
              {k \in DOMAIN conn_messages : start_step <= k /\ k < end_step},
              maxdelay, start_step, end_step)

num_undelivered(conn_messages, start_step) ==
    Cardinality({<<k, i>> \in (DOMAIN conn_messages) \X (1 .. MaxNetMsgs + 64) :
                    k < start_step /\ i <= Len(conn_messages[k])})

\* Network::receive over the connections `conns` (a sequence in key order): every
\* outcome as [messages, deliver].
RECURSIVE receive_conns(_, _, _, _)
receive_conns(msgs, conns, maxdelay, at) ==
    IF conns = <<>> THEN {[messages |-> msgs, deliver |-> <<>>]}
    ELSE IF Len(conns) = 1
    THEN LET c == Head(conns)
             start_step == IF at >= maxdelay THEN at - maxdelay ELSE 0
         IN {[messages |-> [msgs EXCEPT ![c] = o.msgs], deliver |-> o.deliver] :
                o \in receive_from_conn(msgs[c], maxdelay, start_step, at)}
    ELSE LET half == Len(conns) \div 2
             rest == SubSeq(conns, half + 1, Len(conns))
         IN UNION {
              {[messages |-> r.messages, deliver |-> o.deliver \o r.deliver] :
                  r \in receive_conns(o.messages, rest, maxdelay, at)}
              : o \in receive_conns(msgs, SubSeq(conns, 1, half), maxdelay, at)}

\* Network::receive
receive(msgs, maxdelay, at) ==
    receive_conns(msgs, SortConns(DOMAIN msgs), maxdelay, at)

\* The debug assertion of receive_from_conn fails on some connection.
receive_asserts(msgs, maxdelay, at) ==
    \E c \in DOMAIN msgs :
        num_undelivered(msgs[c], IF at >= maxdelay THEN at - maxdelay ELSE 0) # 0

\* Network::send of one message at step `at`.
send_one(msgs, at, m) ==
    LET c == <<m.sender, m.recipient>>
        conn_messages == IF c \in DOMAIN msgs THEN msgs[c] ELSE <<>>
        step_messages == IF at \in DOMAIN conn_messages THEN conn_messages[at] ELSE <<>>
        conn2 == (at :> Append(step_messages, m)) @@ conn_messages
    IN (c :> conn2) @@ msgs

\* Network::send
RECURSIVE send(_, _, _)
send(msgs, at, ms) ==
    IF ms = <<>> THEN msgs
    ELSE IF Len(ms) = 1 THEN send_one(msgs, at, Head(ms))
    ELSE LET half == Len(ms) \div 2
             sent == send(msgs, at, SubSeq(ms, 1, half))
         IN send(sent, at, SubSeq(ms, half + 1, Len(ms)))

\* Network::messages_in_queue: the queued messages as (connection, step, index).
queued(msgs) ==
    {q \in UNION {{<<c, k>> : k \in DOMAIN msgs[c]} : c \in DOMAIN msgs} :
        msgs[q[1]][q[2]] # <<>>}

\* Network::queue_is_empty
queue_is_empty(msgs) == queued(msgs) = {}

(***************************************************************************)
(* Network harness: send and receive driven as in network.rs's tests and   *)
(* in the driver: any number of sends at the current step before and after *)
(* the one receive of the step.                                            *)
(***************************************************************************)
\* The ordered pairs the harness sends on (the tests use Name(0) -> Name(1)).
NetConns == {<<0, 1>>, <<1, 0>>}

\* A test message; the content records the send order and the send step.
test_message(c, tag, at) ==
    [sender |-> c[1], recipient |-> c[2],
     content |-> [type |-> "Test", tag |-> tag, sent |-> at]]

InitNet ==
    /\ messages = <<>>
    /\ max_delay \in 0 .. MaxDelay
    /\ step = 0
    /\ pc = "pre"
    /\ delivered = <<>>
    /\ net_log = {}
    /\ net_sent = 0
    /\ panicked = "none"
    /\ nodes = <<>>
    /\ genesis_set = {}
    /\ node_params = NodeParams(8, 1, 30)
    /\ todo = {}
    /\ events_left = 0
    /\ quiet_steps = 0
    /\ removed = {}
    /\ emitted = <<>>
    /\ event_schedule = <<>>
    /\ FnIdle

\* network.send(step, [m])
NetSend ==
    /\ panicked = "none"
    /\ net_sent < MaxNetMsgs
    /\ \E c \in NetConns :
          messages' = send(messages, step, <<test_message(c, net_sent, step)>>)
    /\ net_sent' = net_sent + 1
    /\ UNCHANGED <<max_delay, step, pc, delivered, net_log, panicked>>
    /\ UNCHANGED sys_vars
    /\ UNCHANGED fn_vars

\* network.receive(step), the debug assertion holding or compiled out
NetReceive ==
    /\ panicked = "none"
    /\ pc = "pre"
    /\ \E o \in receive(messages, max_delay, step) :
          /\ messages' = o.messages
          /\ delivered' = o.deliver
          /\ net_log' = net_log \cup {[msg |-> o.deliver[i], at |-> step] :
                                         i \in 1 .. Len(o.deliver)}
    /\ pc' = "post"
    /\ UNCHANGED <<max_delay, step, net_sent, panicked>>
    /\ UNCHANGED sys_vars
    /\ UNCHANGED fn_vars

\* network.receive(step) in a build with debug assertions, the assertion failing
NetReceiveAssert ==
    /\ panicked = "none"
    /\ pc = "pre"
    /\ receive_asserts(messages, max_delay, step)
    /\ panicked' = "num_undelivered"
    /\ UNCHANGED <<messages, max_delay, step, pc, delivered, net_log, net_sent>>
    /\ UNCHANGED sys_vars
    /\ UNCHANGED fn_vars

\* the driver moves to the next step
NetTick ==
    /\ panicked = "none"
    /\ pc = "post"
    /\ step < MaxNetStep
    /\ step' = step + 1
    /\ pc' = "pre"
    /\ UNCHANGED <<messages, max_delay, delivered, net_log, net_sent, panicked>>
    /\ UNCHANGED sys_vars
    /\ UNCHANGED fn_vars

NextNet == NetSend \/ NetReceive \/ NetReceiveAssert \/ NetTick

SpecNet == InitNet /\ [][NextNet]_vars

(***************************************************************************)
(* consistency.rs                                                          *)
(***************************************************************************)
\* The map `sections` of check_consistency: prefix -> the blocks of the live
\* nodes' current sets with that prefix.
sections_of(ns) ==
    LET all == UNION {ns[n].current_blocks : n \in DOMAIN ns}
    IN [p \in {b.prefix : b \in all} |-> {b \in all : b.prefix = p}]

\* check_consistency without the check that every member is alive.
check_consistency_no_dead(ns, min_section_size) ==
    LET sections == sections_of(ns)
        num_sections == Cardinality(DOMAIN sections)
        single == {p \in DOMAIN sections : Cardinality(sections[p]) = 1}
        result == [p \in single |-> CHOOSE b \in sections[p] : TRUE]
        multiple == \E p \in DOMAIN sections : Cardinality(sections[p]) > 1
        too_small == \E p \in single :
            \/ num_sections = 1 /\ Cardinality(result[p].members) * 2 <= min_section_size
            \/ num_sections > 1 /\ Cardinality(result[p].members) < min_section_size
        overlap == \E p1, p2 \in single : p1 # p2 /\ is_compatible(p1, p2)
    IN [failed |-> multiple \/ too_small \/ overlap, result |-> result]

\* check_consistency: [failed, result], `result` the map prefix -> block.
check_consistency(ns, min_section_size) ==
    LET sections == sections_of(ns)
        num_sections == Cardinality(DOMAIN sections)
        single == {p \in DOMAIN sections : Cardinality(sections[p]) = 1}
        result == [p \in single |-> CHOOSE b \in sections[p] : TRUE]
        multiple == \E p \in DOMAIN sections : Cardinality(sections[p]) > 1
        too_small == \E p \in single :
            \/ num_sections = 1 /\ Cardinality(result[p].members) * 2 <= min_section_size
            \/ num_sections > 1 /\ Cardinality(result[p].members) < min_section_size
        dead == \E p \in single : \E member \in result[p].members : member \notin DOMAIN ns
        overlap == \E p1, p2 \in single : p1 # p2 /\ is_compatible(p1, p2)
    IN [failed |-> multiple \/ too_small \/ dead \/ overlap, result |-> result]

(***************************************************************************)
(* simulation.rs, generate.rs, event.rs: the driver                        *)
(***************************************************************************)
\* construct_blocks for one section: a version 0 block.
Section(bit_count, k, members) ==
    Block(ShortPrefix(bit_count, k), 0, {ShortName(m) : m \in members})

\* The networks the simulation is started from (Simulation::new_from), with
\* the node parameters of each.
Setups ==
    {[sections |-> {Section(2, 0, {0}), Section(2, 2, {2}),
                    Section(2, 4, {4}), Section(2, 6, {6})},
      params |-> NodeParams(1, 0, 2)],
     [sections |-> {Section(0, 0, {0, 1, 4, 5})},
      params |-> NodeParams(2, 0, 2)],
     [sections |-> {Section(1, 0, {0, 1, 2}), Section(1, 4, {4, 5, 6})},
      params |-> NodeParams(3, 1, 2)],
     [sections |-> {Section(0, 0, {0, 1, 4})},
      params |-> NodeParams(3, 1, 2)]}

\* The names of the nodes that may join.
Joiners == {ShortName(3), ShortName(7)}

\* The steps at which the schedule may hold events.
EventSteps == {0, 2}

\* The values of max_delay the simulation is run with.
SimDelays == {1}

\* Messages with one content from `sender` to each of `to`, in name order.
to_each(sender, to, content) ==
    [i \in 1 .. Cardinality(to) |-> Message(sender, SortNames(to)[i], content)]

\* generate_network, Simulation::new_from
Init ==
    /\ \E setup \in Setups :
          /\ genesis_set = setup.sections
          /\ node_params = setup.params
          /\ nodes = [name \in nodes_in_any(setup.sections) |->
                         NewNode(name, setup.sections, setup.params, 0)]
    /\ max_delay \in SimDelays
    /\ events_left = MaxEvents
    /\ messages = <<>>
    /\ step = 0
    /\ pc = "events"
    /\ delivered = <<>>
    /\ net_log = {}
    /\ net_sent = 0
    /\ panicked = "none"
    /\ todo = {}
    /\ quiet_steps = 0
    /\ removed = {}
    /\ emitted = <<>>
    /\ event_schedule = <<>>
    /\ FnIdle

\* Event::AddNode: event.rs add_node, then the node is registered.
AddNode ==
    /\ pc = "events" /\ panicked = "none"
    /\ events_left > 0 /\ step \in EventSteps
    /\ \E name \in Joiners \ ((DOMAIN nodes) \cup removed) :
          /\ messages' = send(messages, step, to_each(name, DOMAIN nodes, NodeJoined))
          /\ nodes' = [x \in (DOMAIN nodes) \cup {name} |->
                          IF x = name THEN NewNode(name, genesis_set, node_params, step)
                          ELSE nodes[x]]
          /\ emitted' = [x \in (DOMAIN emitted) \ {name} |-> emitted[x]]
    /\ events_left' = events_left - 1
    /\ UNCHANGED <<max_delay, step, pc, delivered, net_log, net_sent, panicked,
                   genesis_set, node_params, todo, quiet_steps, removed>>
    /\ UNCHANGED <<event_schedule, fn_vars>>

\* Event::RemoveNode: event.rs remove_node, then the node is deleted.
RemoveNode ==
    /\ pc = "events" /\ panicked = "none"
    /\ events_left > 0 /\ step \in EventSteps
    /\ \E name \in DOMAIN nodes :
          /\ messages' = send(messages, step, to_each(name, DOMAIN nodes, Disconnect))
          /\ nodes' = [x \in (DOMAIN nodes) \ {name} |-> nodes[x]]
          /\ removed' = removed \cup {name}
    /\ events_left' = events_left - 1
    /\ UNCHANGED <<max_delay, step, pc, delivered, net_log, net_sent, panicked,
                   genesis_set, node_params, todo, quiet_steps>>
    /\ UNCHANGED <<event_schedule, emitted, fn_vars>>

\* The run is over: the queue stayed empty for more than join_timeout steps.
finished == quiet_steps > node_params.join_timeout

\* EventSchedule::get_events(step) is not empty.
events_due == event_schedule # <<>> /\ Head(event_schedule).step = step

\* network.receive(step), once the events of the step are applied
Receive ==
    /\ pc = "events" /\ panicked = "none"
    /\ ~ events_due
    /\ ~ finished
    /\ \E o \in receive(messages, max_delay, step) :
          /\ messages' = o.messages
          /\ delivered' = o.deliver
    /\ quiet_steps' = IF queue_is_empty(messages) THEN quiet_steps + 1 ELSE 0
    /\ pc' = "handle"
    /\ UNCHANGED <<max_delay, step, net_log, net_sent, panicked,
                   nodes, genesis_set, node_params, todo, events_left, removed>>
    /\ UNCHANGED <<event_schedule, emitted, fn_vars>>

\* One delivered message is handled by its recipient, or dropped if the
\* recipient is gone; the replies are sent.
Handle ==
    /\ pc = "handle" /\ panicked = "none"
    /\ delivered # <<>>
    /\ LET message == Head(delivered)
           to == message.recipient
       IN IF to \notin DOMAIN nodes
          THEN UNCHANGED <<nodes, messages, panicked, emitted>>
          ELSE IF handle_message_panics(nodes[to], message)
          THEN panicked' = "handle_message" /\ UNCHANGED <<nodes, messages, emitted>>
          ELSE LET r == handle_message(nodes[to], message, step)
               IN /\ nodes' = [nodes EXCEPT ![to] = r.node]
                  /\ messages' = send(messages, step, r.msgs)
                  /\ emitted' = FnPut(emitted, to, FnGet(emitted, to, <<>>) \o r.msgs)
                  /\ UNCHANGED panicked
    /\ delivered' = Tail(delivered)
    /\ UNCHANGED <<max_delay, step, pc, net_log, net_sent,
                   genesis_set, node_params, todo, events_left, quiet_steps, removed>>
    /\ UNCHANGED <<event_schedule, fn_vars>>

\* All delivered messages are handled: the nodes that give up are shut down
\* and their removal is broadcast.
Shutdown ==
    /\ pc = "handle" /\ panicked = "none"
    /\ delivered = <<>>
    /\ LET leaving == {n \in DOMAIN nodes : should_shutdown(nodes[n], step)}
           staying == (DOMAIN nodes) \ leaving
           names == SortNames(leaving)
       IN /\ nodes' = [x \in staying |-> nodes[x]]
          /\ messages' = send(messages, step,
                              Flatten([i \in 1 .. Len(names) |->
                                          to_each(names[i], staying, Disconnect)]))
          /\ removed' = removed \cup leaving
          /\ todo' = staying
    /\ pc' = "update"
    /\ UNCHANGED <<max_delay, step, delivered, net_log, net_sent, panicked,
                   genesis_set, node_params, events_left, quiet_steps>>
    /\ UNCHANGED <<event_schedule, emitted, fn_vars>>

\* The assertion or index that aborts Node::update_state.
update_state_panics(n) ==
    LET n1 == update_valid_blocks(n)
    IN IF \E e \in DOMAIN n.vote_counts :
              e[1] \in n1.valid_blocks /\ successors_asserts(n.vote_counts, e[1])
       THEN "is_quorum_of"
       ELSE IF section_blocks(n1.current_blocks, n.our_name) = {}
       THEN "prune_split_blocks"
       ELSE "none"

\* The next node in name order runs update_state and broadcast_new_votes, and
\* what they return is sent.
Update ==
    /\ pc = "update" /\ panicked = "none"
    /\ todo # {}
    /\ LET name == Min(todo)
           n == nodes[name]
           panic == update_state_panics(n)
       IN IF panic # "none"
          THEN panicked' = panic /\ UNCHANGED <<nodes, messages, emitted>>
          ELSE \E first \in section_blocks(update_valid_blocks(n).current_blocks, name) :
                  LET u == update_state(n, step, first)
                      v == broadcast_new_votes(u.node, step)
                  IN /\ nodes' = [nodes EXCEPT ![name] = v.node]
                     /\ messages' = send(send(messages, step, u.msgs), step, v.msgs)
                     /\ emitted' = FnPut(emitted, name,
                                         FnGet(emitted, name, <<>>) \o u.msgs \o v.msgs)
                     /\ UNCHANGED panicked
    /\ todo' = todo \ {Min(todo)}
    /\ UNCHANGED <<max_delay, step, pc, delivered, net_log, net_sent,
                   genesis_set, node_params, events_left, quiet_steps, removed>>
    /\ UNCHANGED <<event_schedule, fn_vars>>

\* Every node is updated: the next step begins.
Tick ==
    /\ pc = "update" /\ panicked = "none"
    /\ todo = {}
    /\ step < MaxStep
    /\ step' = step + 1
    /\ pc' = "events"
    /\ UNCHANGED <<messages, max_delay, delivered, net_log, net_sent, panicked,
                   nodes, genesis_set, node_params, todo, events_left, quiet_steps, removed>>
    /\ UNCHANGED <<event_schedule, emitted, fn_vars>>

\* The run ends and the consistency check is made.
Finish ==
    /\ pc = "events" /\ panicked = "none"
    /\ event_schedule = <<>>
    /\ finished
    /\ pc' = "done"
    /\ UNCHANGED <<messages, max_delay, step, delivered, net_log, net_sent, panicked,
                   nodes, genesis_set, node_params, todo, events_left, quiet_steps, removed>>
    /\ UNCHANGED <<event_schedule, emitted, fn_vars>>

Next == AddNode \/ RemoveNode \/ Receive \/ Handle \/ Shutdown \/ Update \/ Tick \/ Finish

Spec == Init /\ [][Next]_vars

(***************************************************************************)
(* event_schedule.rs, event.rs, tests/manual_setup.rs: scheduled runs      *)
(***************************************************************************)
\* Event::RemoveNodeFrom
EventRemoveNodeFrom(prefix) == [type |-> "RemoveNodeFrom", prefix |-> prefix]

\* Event::AddNode
EventAddNode(name) == [type |-> "AddNode", name |-> name]

\* One entry of EventSchedule.schedule
At(at, event) == [step |-> at, event |-> event]

\* select_node_to_remove: the first node, in name order, the prefix matches.
select_node_to_remove(prefix, ns) ==
    LET matching == {name \in DOMAIN ns : matches(prefix, name)}
    IN IF matching = {} THEN {} ELSE {Min(matching)}

\* A name given by its four leading bits, the rest zero.
FineName(k) == k * Pow2(NameBits - 4)

\* construct_blocks for one section of such names.
FineSection(bit_count, k, members) ==
    Block(ShortPrefix(bit_count, k), 0, {FineName(m) : m \in members})

\* cascading_merge: sections 0, 10 and 11 of min_section_size nodes each
cascading_merge ==
    [sections |-> {FineSection(1, 0, {0, 1, 2}), FineSection(2, 4, {8, 9, 10}),
                   FineSection(2, 6, {12, 13, 14})},
     params |-> NodeParams(3, 1, 2),
     schedule |-> <<At(0, EventRemoveNodeFrom(ShortPrefix(1, 0)))>>]

\* parallel_merge: sections 00, 01, 10 and 11 of min_section_size nodes each
parallel_merge ==
    [sections |-> {FineSection(2, 0, {0, 1, 2}), FineSection(2, 2, {4, 5, 6}),
                   FineSection(2, 4, {8, 9, 10}), FineSection(2, 6, {12, 13, 14})},
     params |-> NodeParams(3, 1, 2),
     schedule |-> <<At(0, EventRemoveNodeFrom(ShortPrefix(2, 0))),
                    At(0, EventRemoveNodeFrom(ShortPrefix(2, 6)))>>]

\* one_join_one_drop, with the random name of the joining node
one_join_one_drop(joining) ==
    [sections |-> {FineSection(1, 0, {0, 1, 2}), FineSection(1, 4, {8, 9, 10})},
     params |-> NodeParams(3, 1, 2),
     schedule |-> <<At(0, EventRemoveNodeFrom(ShortPrefix(1, 0))),
                    At(1, EventAddNode(joining))>>]

Scenarios ==
    {cascading_merge, parallel_merge}
        \cup {one_join_one_drop(FineName(k)) : k \in {3, 7}}

\* Simulation::new_from(sections, event_schedule, params, node_params)
InitSched ==
    /\ \E scenario \in Scenarios :
          /\ genesis_set = scenario.sections
          /\ node_params = scenario.params
          /\ nodes = [name \in nodes_in_any(scenario.sections) |->
                         NewNode(name, scenario.sections, scenario.params, 0)]
          /\ event_schedule = scenario.schedule
          /\ events_left = Len(scenario.schedule)
    /\ max_delay \in SimDelays
    /\ messages = <<>>
    /\ step = 0
    /\ pc = "events"
    /\ delivered = <<>>
    /\ net_log = {}
    /\ net_sent = 0
    /\ panicked = "none"
    /\ todo = {}
    /\ quiet_steps = 0
    /\ removed = {}
    /\ emitted = <<>>
    /\ FnIdle

\* The next event of this step: normalise, broadcast, then the node is
\* registered or deleted.
ScheduledEvent ==
    /\ pc = "events" /\ panicked = "none"
    /\ events_due
    /\ LET event == Head(event_schedule).event
           leaving == IF event.type = "RemoveNodeFrom"
                      THEN select_node_to_remove(event.prefix, nodes) ELSE {}
           joining == IF event.type = "AddNode" THEN {event.name} \ DOMAIN nodes ELSE {}
           names == SortNames(leaving \cup joining)
       IN /\ messages' = send(messages, step,
                              Flatten([i \in 1 .. Len(names) |->
                                  to_each(names[i], DOMAIN nodes,
                                          IF names[i] \in leaving THEN Disconnect
                                          ELSE NodeJoined)]))
          /\ nodes' = [x \in ((DOMAIN nodes) \cup joining) \ leaving |->
                          IF x \in joining
                          THEN NewNode(x, genesis_set, node_params, step)
                          ELSE nodes[x]]
          /\ emitted' = [x \in (DOMAIN emitted) \ joining |-> emitted[x]]
          /\ removed' = removed \cup leaving
    /\ event_schedule' = Tail(event_schedule)
    /\ events_left' = events_left - 1
    /\ UNCHANGED <<max_delay, step, pc, delivered, net_log, net_sent, panicked,
                   genesis_set, node_params, todo, quiet_steps>>
    /\ UNCHANGED fn_vars

NextSched == ScheduledEvent \/ Receive \/ Handle \/ Shutdown \/ Update \/ Tick \/ Finish

SpecSched == InitSched /\ [][NextSched]_vars

\* The steps of NextSched seen through the driver's position alone: the guard
\* of each action and the change it makes to event_schedule, pc, delivered or
\* todo. Each is enabled exactly where the action it stands for is.
EventStep ==
    /\ pc = "events" /\ panicked = "none"
    /\ events_due
    /\ event_schedule' = Tail(event_schedule)

\* Receive, Finish, Shutdown and Tick move the driver to its next phase.
PhaseStep ==
    /\ panicked = "none"
    /\ \/ pc = "events" /\ ~ events_due /\ ~ finished /\ pc' = "handle"
       \/ pc = "events" /\ event_schedule = <<>> /\ finished /\ pc' = "done"
       \/ pc = "handle" /\ delivered = <<>> /\ pc' = "update"
       \/ pc = "update" /\ todo = {} /\ step < MaxStep /\ pc' = "events"

HandleStep ==
    /\ pc = "handle" /\ panicked = "none"
    /\ delivered # <<>>
    /\ delivered' = Tail(delivered)

UpdateStep ==
    /\ pc = "update" /\ panicked = "none"
    /\ todo # {}
    /\ todo' = todo \ {Min(todo)}

\* Simulation::run loops without pausing: the step in hand is eventually taken.
SpecSchedLive ==
    /\ SpecSched
    /\ WF_event_schedule(EventStep)
    /\ WF_pc(PhaseStep)
    /\ WF_delivered(HandleStep)
    /\ WF_todo(UpdateStep)

\* The queued messages of the network.
QueuedMsgs ==
    UNION {{messages[q[1]][q[2]][i] : i \in 1 .. Len(messages[q[1]][q[2]])} :
              q \in queued(messages)}

SameConn(m1, m2) == m1.sender = m2.sender /\ m1.recipient = m2.recipient

\* C3: for every ordered pair, messages are delivered in the order they were
\* sent: within one receive round the messages of a pair come out in send order,
\* and no message of a pair has been delivered while a message sent earlier on
\* that pair (at an earlier step, or earlier within the same step) is still queued.
C3_InOrder ==
    /\ \A i, j \in 1 .. Len(delivered) :
          (i < j /\ SameConn(delivered[i], delivered[j]))
              => delivered[i].content.tag < delivered[j].content.tag
    /\ \A e \in net_log : \A m \in QueuedMsgs :
          SameConn(e.msg, m) => e.msg.content.tag < m.content.tag

\* A receive round delivered a message of a pair while a later message of that
\* pair, sent at the same step, stayed queued, and another round delivered
\* messages sent at two different steps.
C3_Witness ==
    /\ \E i \in 1 .. Len(delivered) : \E m \in QueuedMsgs :
          SameConn(delivered[i], m) /\ delivered[i].content.sent = m.content.sent
    /\ \E e1, e2 \in net_log :
          SameConn(e1.msg, e2.msg) /\ e1.at = e2.at /\ e1.msg.content.sent # e2.msg.content.sent

\* C4: with receive called once per step, a message sent at step s is delivered
\* at a step in [s, s + max_delay], and once receive(s + max_delay) has run it is
\* no longer queued, for every value of max_delay.
C4_BoundedDelay ==
    /\ \A e \in net_log :
          e.msg.content.sent <= e.at /\ e.at <= e.msg.content.sent + max_delay
    /\ \A m \in QueuedMsgs :
          \/ m.content.sent + max_delay > step
          \/ m.content.sent + max_delay = step /\ pc = "pre"

(***************************************************************************)
(* The rules and checks as functions: split_blocks, merge_blocks,          *)
(* apply_bootstrap_msg and check_consistency applied to the arguments      *)
(* drawn by InitFn.                                                        *)
(***************************************************************************)
\* The names of the nodes of the argument networks.
FnNames == {ShortName(k) : k \in {0, 1, 2, 4, 5, 6}}

\* Sets of section prefixes that cover the namespace.
FnCovers ==
    {{EmptyPrefix},
     {ShortPrefix(1, 0), ShortPrefix(1, 4)},
     {ShortPrefix(1, 0), ShortPrefix(2, 4), ShortPrefix(2, 6)},
     {ShortPrefix(2, 0), ShortPrefix(2, 2), ShortPrefix(1, 4)},
     {ShortPrefix(2, 0), ShortPrefix(2, 2), ShortPrefix(2, 4), ShortPrefix(2, 6)}}

\* construct_blocks: the blocks of the sections `cover` with the nodes `names`.
construct_blocks(cover, names) ==
    {Block(p, 0, {m \in names : matches(p, m)}) : p \in cover}

\* The networks of nodes among `all`: every section has a member.
FnNetworks(all) ==
    {net \in {construct_blocks(cover, names) : cover \in FnCovers, names \in SUBSET all} :
        \A b \in net : b.members # {}}

\* The current blocks a node of the network holds: all of them when it is
\* created, those of its own and neighbouring sections after an update.
FnViews(net, name) ==
    {net} \cup {prune_split_blocks([current_blocks |-> net], first).current_blocks :
                   first \in section_blocks(net, name)}

\* A network of nodes among `all` and the name of one of its nodes.
FnHolders(all) ==
    {h \in FnNetworks(all) \X all : h[2] \in nodes_in_any(h[1])}

SplitInputs(all) ==
    UNION {{[kind |-> "split", current_blocks |-> view, our_name |-> h[2],
             min_split_size |-> size] :
               view \in FnViews(h[1], h[2]), size \in {1, 2}} : h \in FnHolders(all)}

MergeInputs(all) ==
    UNION {{[kind |-> "merge", current_blocks |-> view, our_name |-> h[2],
             connections |-> nodes_in_any(h[1]) \ lost, min_section_size |-> size] :
               view \in FnViews(h[1], h[2]),
               lost \in {l \in SUBSET all : Cardinality(l) <= 2},
               size \in {2, 3}} : h \in FnHolders(all)}

\* Networks of four sections in which every section may have two members, and
\* the arguments of merge_blocks for their nodes, all peers connected.
WideNames == {ShortName(k) : k \in 0 .. 7}

WideNetworks(all) ==
    {net \in {construct_blocks({ShortPrefix(2, 0), ShortPrefix(2, 2), ShortPrefix(2, 4),
                                 ShortPrefix(2, 6)}, names) :
                 names \in SUBSET all} :
        \A b \in net : b.members # {}}

WideMergeInputs(all) ==
    UNION {{[kind |-> "merge", current_blocks |-> view, our_name |-> name,
             connections |-> nodes_in_any(net), min_section_size |-> 2] :
               view \in FnViews(net, name)} :
              <<net, name>> \in {h \in WideNetworks(all) \X all :
                                    h[2] \in nodes_in_any(h[1])}}

\* The blocks and the edges of the vote graphs a Bootstrap message carries.
FnGenesis == Block(EmptyPrefix, 0, {ShortName(0), ShortName(4)})

FnEdges ==
    {<<FnGenesis, add_node(FnGenesis, ShortName(1))>>,
     <<FnGenesis, remove_node(FnGenesis, ShortName(4))>>,
     <<add_node(FnGenesis, ShortName(1)),
       remove_node(add_node(FnGenesis, ShortName(1)), ShortName(4))>>}

FnVoteCounts ==
    UNION {[edges -> (SUBSET FnGenesis.members) \ {{}}] : edges \in SUBSET FnEdges}

\* A node that has recorded `prior`, and the payload of a Bootstrap message.
BootstrapInputs(vote_counts) ==
    {[kind |-> "bootstrap",
      node |-> apply_bootstrap_msg(
                   NewNode(ShortName(0), {FnGenesis}, NodeParams(2, 1, 2), 0), prior),
      vote_counts |-> payload] :
        prior \in vote_counts, payload \in vote_counts}

\* The blocks live nodes may hold as current when the run ends, consistent or not.
CcNames == {ShortName(0), ShortName(1), ShortName(4)}

CcBlocks ==
    {b \in {Block(p, 0, members) :
               p \in {EmptyPrefix, ShortPrefix(1, 0), ShortPrefix(1, 4)},
               members \in (SUBSET CcNames) \ {{}}} :
        \A m \in b.members : matches(b.prefix, m)}

CcCurrentSets == {c \in SUBSET CcBlocks : Cardinality(c) \in {1, 2}}

\* The node tables: ShortName(1) is never alive.
ConsistencyInputs(current_sets) ==
    UNION {{[kind |-> "consistency",
             nodes |-> [name \in live |-> [our_name |-> name, current_blocks |-> held[name]]],
             min_section_size |-> size] :
               held \in [live -> current_sets], size \in {1, 2, 3}} :
              live \in (SUBSET {ShortName(0), ShortName(4)}) \ {{}}}

InitFn ==
    /\ fn_in \in SplitInputs(FnNames) \cup MergeInputs(FnNames)
                   \cup WideMergeInputs(WideNames) \cup BootstrapInputs(FnVoteCounts)
                   \cup ConsistencyInputs(CcCurrentSets)
    /\ fn_out = [done |-> FALSE]
    /\ messages = <<>>
    /\ max_delay = 1
    /\ step = 0
    /\ pc = "fn"
    /\ delivered = <<>>
    /\ net_log = {}
    /\ net_sent = 0
    /\ panicked = "none"
    /\ nodes = <<>>
    /\ genesis_set = {}
    /\ node_params = NodeParams(8, 1, 30)
    /\ todo = {}
    /\ events_left = 0
    /\ quiet_steps = 0
    /\ removed = {}
    /\ emitted = <<>>
    /\ event_schedule = <<>>

\* split_blocks(blocks, &current_blocks, our_name, min_split_size)
FnSplit ==
    /\ fn_in.kind = "split" /\ ~ fn_out.done
    /\ fn_out' = [done |-> TRUE,
                  votes |-> split_blocks(fn_in.current_blocks, fn_in.our_name,
                                         fn_in.min_split_size)]
    /\ UNCHANGED <<net_vars, sys_vars, fn_in>>

\* merge_blocks(blocks, &current_blocks, &connections, our_name, min_section_size)
FnMerge ==
    /\ fn_in.kind = "merge" /\ ~ fn_out.done
    /\ fn_out' = [done |-> TRUE,
                  merge_rule |-> merge_rule(fn_in.current_blocks, fn_in.our_name,
                                            fn_in.min_section_size),
                  force_merge_rule |-> force_merge_rule(fn_in.current_blocks,
                                                        fn_in.connections, fn_in.our_name),
                  votes |-> merge_blocks(fn_in.current_blocks, fn_in.connections,
                                         fn_in.our_name, fn_in.min_section_size)]
    /\ UNCHANGED <<net_vars, sys_vars, fn_in>>

\* apply_bootstrap_msg(vote_counts), once and a second time
FnBootstrap ==
    /\ fn_in.kind = "bootstrap" /\ ~ fn_out.done
    /\ LET once == apply_bootstrap_msg(fn_in.node, fn_in.vote_counts)
       IN fn_out' = [done |-> TRUE,
                     once |-> once,
                     twice |-> apply_bootstrap_msg(once, fn_in.vote_counts)]
    /\ UNCHANGED <<net_vars, sys_vars, fn_in>>

\* check_consistency(&blocks, &nodes, min_section_size)
FnConsistency ==
    /\ fn_in.kind = "consistency" /\ ~ fn_out.done
    /\ fn_out' = [done |-> TRUE,
                  check |-> check_consistency(fn_in.nodes, fn_in.min_section_size)]
    /\ UNCHANGED <<net_vars, sys_vars, fn_in>>

NextFn == FnSplit \/ FnMerge \/ FnBootstrap \/ FnConsistency

SpecFn == InitFn /\ [][NextFn]_vars

(***************************************************************************)
(* The functions of name.rs, block.rs and blocks.rs applied to inputs      *)
(***************************************************************************)
\* The prefixes of at most `bits` bits.
FnPrefixesTo(bits) == {Prefix(bit_count, name) : bit_count \in 0 .. bits, name \in Names}

\* One name in each section of two bits.
SelNames == {ShortName(k) : k \in {0, 2, 4, 6}}

\* The members of a block of section p: its names, or all but the least.
SelMembers(p) ==
    LET all == {n \in SelNames : matches(p, n)}
    IN IF all = {} THEN {} ELSE {m \in {all, all \ {Min(all)}} : m # {}}

SelBlocks ==
    UNION {{Block(p, version, members) : version \in {0, 1, 2}, members \in SelMembers(p)} :
              p \in FnPrefixesTo(MaxPrefixBits)}

\* The prefixes of `blocks` leave no name out.
CoversNames(blocks) == \A name \in Names : \E b \in blocks : matches(b.prefix, name)

\* The sets of at most k elements of S.
RECURSIVE SetsUpTo(_, _)
SetsUpTo(S, k) ==
    IF k = 0 THEN {{}}
    ELSE LET smaller == SetsUpTo(S, k - 1)
         IN smaller \cup {T \cup {x} : T \in smaller, x \in S}

\* The sets of at most `size` valid blocks whose prefixes cover the namespace.
SelectInputs(size) ==
    {[kind |-> "select", valid_blocks |-> V] :
        V \in {V \in SetsUpTo(SelBlocks, size) : CoversNames(V)}}

\* Pairs of blocks over three names.
AdmBlocks ==
    {Block(p, version, members) :
        p \in FnPrefixesTo(MaxPrefixBits), version \in {0, 1},
        members \in SUBSET {ShortName(0), ShortName(2), ShortName(4)}}

AdmissibleInputs ==
    {[kind |-> "admissible", self |-> b[1], other |-> b[2]] : b \in AdmBlocks \X AdmBlocks}

QuorumInputs ==
    {[kind |-> "quorum", voters |-> x[1], members |-> x[2]] :
        x \in (SUBSET SelNames) \X (SUBSET SelNames)}

NeighbourInputs ==
    {[kind |-> "neighbour", p |-> x[1], q |-> x[2]] :
        x \in FnPrefixesTo(MaxPrefixBits + 1) \X FnPrefixesTo(MaxPrefixBits + 1)}

CoveredInputs(size) ==
    {[kind |-> "covered", p |-> x[1], prefixes |-> x[2]] :
        x \in FnPrefixesTo(MaxPrefixBits + 1)
                 \X SetsUpTo(FnPrefixesTo(MaxPrefixBits), size)}

InitSel ==
    /\ fn_in \in SelectInputs(MaxValid) \cup AdmissibleInputs \cup QuorumInputs
                  \cup NeighbourInputs \cup CoveredInputs(MaxValid)
    /\ fn_out = [done |-> FALSE]
    /\ messages = <<>>
    /\ max_delay = 1
    /\ step = 0
    /\ pc = "fn"
    /\ delivered = <<>>
    /\ net_log = {}
    /\ net_sent = 0
    /\ panicked = "none"
    /\ nodes = <<>>
    /\ genesis_set = {}
    /\ node_params = NodeParams(8, 1, 30)
    /\ todo = {}
    /\ events_left = 0
    /\ quiet_steps = 0
    /\ removed = {}
    /\ emitted = <<>>
    /\ event_schedule = <<>>

\* compute_current_blocks(&compute_current_candidate_blocks(valid_blocks))
FnSelect ==
    /\ fn_in.kind = "select" /\ ~ fn_out.done
    /\ LET candidates == compute_current_candidate_blocks(fn_in.valid_blocks)
       IN fn_out' = [done |-> TRUE,
                     candidates |-> candidates,
                     current |-> compute_current_blocks(candidates)]
    /\ UNCHANGED <<net_vars, sys_vars, fn_in>>

\* self.is_admissible_after(other)
FnAdmissible ==
    /\ fn_in.kind = "admissible" /\ ~ fn_out.done
    /\ fn_out' = [done |-> TRUE, result |-> is_admissible_after(fn_in.self, fn_in.other)]
    /\ UNCHANGED <<net_vars, sys_vars, fn_in>>

\* is_quorum_of(voters, members): the assertion fails, or the result is returned.
FnQuorum ==
    /\ fn_in.kind = "quorum" /\ ~ fn_out.done
    /\ fn_out' = IF quorum_assert_fails(fn_in.voters, fn_in.members)
                 THEN [done |-> TRUE, panicked |-> TRUE, result |-> FALSE]
                 ELSE [done |-> TRUE, panicked |-> FALSE,
                       result |-> is_quorum_of(fn_in.voters, fn_in.members)]
    /\ UNCHANGED <<net_vars, sys_vars, fn_in>>

\* p.is_neighbour(q)
FnNeighbour ==
    /\ fn_in.kind = "neighbour" /\ ~ fn_out.done
    /\ fn_out' = [done |-> TRUE, result |-> is_neighbour(fn_in.p, fn_in.q)]
    /\ UNCHANGED <<net_vars, sys_vars, fn_in>>

\* p.is_covered_by(prefixes)
FnCovered ==
    /\ fn_in.kind = "covered" /\ ~ fn_out.done
    /\ fn_out' = [done |-> TRUE, result |-> is_covered_by(fn_in.p, fn_in.prefixes)]
    /\ UNCHANGED <<net_vars, sys_vars, fn_in>>

NextSel == FnSelect \/ FnAdmissible \/ FnQuorum \/ FnNeighbour \/ FnCovered

SpecSel == InitSel /\ [][NextSel]_vars

(***************************************************************************)
(* Claims about the nodes, under Spec                                      *)
(***************************************************************************)
\* The node has run update_state at least once.
Updated(name) ==
    \/ nodes[name].step_created < step
    \/ pc = "update" /\ name \notin todo
    \/ pc = "done"

Prefixes(blocks) == {b.prefix : b \in blocks}

PairwiseIncompatible(blocks) ==
    \A b, c \in blocks : b # c => ~ is_compatible(b.prefix, c.prefix)

\* The current blocks update_current_blocks selects, before pruning.
Selected(n) == compute_current_blocks(n.current_candidate_blocks)

\* C1 as stated: after update_state, the prefixes of every live node's current
\* blocks are pairwise incompatible and cover the whole namespace.
C1_CoverAfterUpdate ==
    \A name \in DOMAIN nodes :
        Updated(name) =>
            /\ PairwiseIncompatible(nodes[name].current_blocks)
            /\ is_covered_by(EmptyPrefix, Prefixes(nodes[name].current_blocks))

\* C1 amended: after update_state, the prefixes of every live node's current
\* blocks are pairwise incompatible; the blocks selected before pruning cover
\* the namespace, and the current set is the part of that selection whose
\* prefix is the node's own section prefix or a neighbour of it.
C1_CoverBeforePruning ==
    \A name \in DOMAIN nodes :
        Updated(name) =>
            LET n == nodes[name] IN
            /\ PairwiseIncompatible(n.current_blocks)
            /\ is_covered_by(EmptyPrefix, Prefixes(Selected(n)))
            /\ \E own \in section_blocks(Selected(n), name) :
                  n.current_blocks =
                      {b \in Selected(n) :
                          is_neighbour(b.prefix, own.prefix) \/ b.prefix = own.prefix}

\* A node whose update pruned a selected block, and one whose selection
\* changed from the blocks it was started with.
C1_Witness ==
    /\ \E name \in DOMAIN nodes :
          Updated(name) /\ nodes[name].current_blocks # Selected(nodes[name])
    /\ \E name \in DOMAIN nodes :
          Updated(name) /\ Selected(nodes[name]) # genesis_set

\* C2: every valid block of a node is one of the blocks the node was started
\* with, or has an incoming edge in the node's vote graph from a valid block,
\* with a quorum of that block's members recorded on it, to a block that is
\* admissible after it or whose prefix neighbours its prefix.
C2_ValidHasQuorumEdge ==
    \A name \in DOMAIN nodes :
        LET n == nodes[name] IN
        \A to \in n.valid_blocks :
            \/ to \in genesis_set
            \/ \E e \in DOMAIN n.vote_counts :
                  /\ e[2] = to
                  /\ e[1] \in n.valid_blocks
                  /\ is_quorum_of(n.vote_counts[e], e[1].members)
                  /\ (is_admissible_after(to, e[1]) \/ is_neighbour(to.prefix, e[1].prefix))

\* A node holds a valid block it was not started with, and an edge out of a
\* valid block that has votes but no quorum.
C2_Witness ==
    \E name \in DOMAIN nodes :
        LET n == nodes[name] IN
        /\ n.valid_blocks \ genesis_set # {}
        /\ \E e \in DOMAIN n.vote_counts :
              /\ e[1] \in n.valid_blocks
              /\ e[2] \notin n.valid_blocks
              /\ ~ is_quorum_of(n.vote_counts[e] \cap e[1].members, e[1].members)

\* C5 as stated: when the run has ended (events over, queue drained), the
\* consistency check passes.
C5_FinalConsistency ==
    pc = "done" => ~ check_consistency(nodes, node_params.min_section_size).failed

\* The voter sets of one index only grow, and no edge is removed.
Grows(old, new) ==
    \A e \in DOMAIN old : e \in DOMAIN new /\ old[e] \subseteq new[e]

\* C6: in every step of every node, each edge of the forward and of the
\* reverse vote index keeps its voters: the voter set after the step is a
\* superset of the one before, and no edge disappears.
C6_VotersOnlyGrow ==
    [][\A name \in (DOMAIN nodes) \cap (DOMAIN nodes') :
          /\ Grows(nodes[name].vote_counts, nodes'[name].vote_counts)
          /\ Grows(nodes[name].rev_vote_counts, nodes'[name].rev_vote_counts)]_vars

\* An edge a node voted for itself has gained a second voter from a message.
C6_Witness ==
    \E name \in DOMAIN nodes :
        \E e \in DOMAIN nodes[name].vote_counts :
            /\ name \in nodes[name].vote_counts[e]
            /\ Cardinality(nodes[name].vote_counts[e]) >= 2
            /\ nodes[name].rev_vote_counts[<<e[2], e[1]>>] = nodes[name].vote_counts[e]

(***************************************************************************)
(* Claims about the rules and checks, under SpecFn                         *)
(***************************************************************************)
\* C7: when split_blocks votes to split a block b, it votes for exactly two
\* blocks b0 and b1 with the prefixes b.prefix+0 and b.prefix+1, whose members
\* are disjoint and together are the members of b.
C7_SplitPreservesMembers ==
    (fn_in.kind = "split" /\ fn_out.done) =>
        \A b \in fn_in.current_blocks :
            LET to == {v.to : v \in {v \in fn_out.votes : v.from = b}}
            IN to # {} =>
                  \E b0, b1 \in to :
                      /\ to = {b0, b1}
                      /\ b0.prefix = pushed(b.prefix, 0)
                      /\ b1.prefix = pushed(b.prefix, 1)
                      /\ b0.members \cup b1.members = b.members
                      /\ b0.members \cap b1.members = {}

\* A node that holds several sections' blocks votes to split its own.
C7_Witness ==
    /\ fn_in.kind = "split" /\ fn_out.done
    /\ fn_out.votes # {}
    /\ Cardinality(fn_in.current_blocks) >= 2

\* Every vote of `votes` is from one of two current blocks with sibling
\* prefixes to a block with their parent prefix and the union of their members.
MergesSiblings(votes, current_blocks) ==
    \A v \in votes :
        \E b0, b1 \in current_blocks :
            /\ sibling(b0.prefix) = b1.prefix
            /\ v.from \in {b0, b1}
            /\ v.to.prefix = popped(b0.prefix)
            /\ v.to.members = b0.members \cup b1.members

\* C8: every block the merge rule or the force-merge rule votes for merges two
\* current blocks with sibling prefixes, and its members are exactly the union
\* of the members of the two.
C8_MergePreservesMembers ==
    (fn_in.kind = "merge" /\ fn_out.done) =>
        /\ MergesSiblings(fn_out.merge_rule, fn_in.current_blocks)
        /\ MergesSiblings(fn_out.force_merge_rule, fn_in.current_blocks)
        /\ fn_out.votes = fn_out.merge_rule \cup fn_out.force_merge_rule

\* Both rules vote, in a network of more than the two sections that merge.
C8_Witness ==
    /\ fn_in.kind = "merge" /\ fn_out.done
    /\ fn_out.merge_rule # {}
    /\ fn_out.force_merge_rule # {}
    /\ Cardinality(fn_in.current_blocks) >= 3

\* C9: applying a Bootstrap payload a second time leaves the forward and the
\* reverse vote index as the first application left them.
C9_BootstrapIdempotent ==
    (fn_in.kind = "bootstrap" /\ fn_out.done) =>
        /\ fn_out.twice.vote_counts = fn_out.once.vote_counts
        /\ fn_out.twice.rev_vote_counts = fn_out.once.rev_vote_counts

\* The payload added an edge and added voters to an edge the node had.
C9_Witness ==
    /\ fn_in.kind = "bootstrap" /\ fn_out.done
    /\ DOMAIN fn_out.once.vote_counts # DOMAIN fn_in.node.vote_counts
    /\ \E e \in DOMAIN fn_in.node.vote_counts :
          fn_out.once.vote_counts[e] # fn_in.node.vote_counts[e]

\* The blocks of the live nodes' current sets.
CcAll == UNION {fn_in.nodes[n].current_blocks : n \in DOMAIN fn_in.nodes}

\* (a) two distinct blocks share a prefix
CcSharedPrefix == \E b, c \in CcAll : b # c /\ b.prefix = c.prefix

\* (b) two current prefixes are compatible
CcOverlap == \E b, c \in CcAll : b.prefix # c.prefix /\ is_compatible(b.prefix, c.prefix)

\* (c) a section is below the threshold
CcTooSmall ==
    \E b \in CcAll :
        IF Cardinality(Prefixes(CcAll)) = 1
        THEN Cardinality(b.members) <= fn_in.min_section_size \div 2
        ELSE Cardinality(b.members) < fn_in.min_section_size

\* (d) a member of a current block is not a live node
CcDeadMember == \E b \in CcAll : \E m \in b.members : m \notin DOMAIN fn_in.nodes

\* C10: check_consistency fails exactly when (a), (b), (c) or (d) holds, and
\* otherwise returns the map from each prefix to its block.
C10_ConsistencyIff ==
    (fn_in.kind = "consistency" /\ fn_out.done) =>
        /\ fn_out.check.failed <=> (CcSharedPrefix \/ CcOverlap \/ CcTooSmall \/ CcDeadMember)
        /\ ~ fn_out.check.failed =>
              /\ DOMAIN fn_out.check.result = Prefixes(CcAll)
              /\ \A b \in CcAll : fn_out.check.result[b.prefix] = b

\* The check fails for a dead member alone, and in another run of it passes.
C10_Witness ==
    /\ fn_in.kind = "consistency" /\ fn_out.done
    /\ fn_out.check.failed
    /\ CcDeadMember /\ ~ CcSharedPrefix /\ ~ CcOverlap /\ ~ CcTooSmall

(***************************************************************************)
(* Claims about the scheduled runs, under SpecSched and SpecSchedLive      *)
(***************************************************************************)
\* The run was started from the sections of `scenario`.
Started(scenario) == genesis_set = scenario.sections

\* The run has ended and every live node holds `blocks` as its current blocks.
EndedWith(blocks) ==
    /\ pc = "done"
    /\ \A name \in DOMAIN nodes : nodes[name].current_blocks = blocks

\* The nodes the run was started with, less the removed ones.
Survivors == nodes_in_any(genesis_set) \ removed

\* C11: the run started from sections 0, 10 and 11 of min_section_size nodes
\* each, with one node removed from 0, eventually ends, and ends with every
\* live node agreeing on one section with the empty prefix whose members are
\* the 3 * min_section_size - 1 surviving nodes.
C11_CascadingMerge ==
    <>[](Started(cascading_merge) =>
            \E b \in UNION {nodes[name].current_blocks : name \in DOMAIN nodes} :
                /\ EndedWith({b})
                /\ b.prefix = EmptyPrefix
                /\ b.members = Survivors
                /\ DOMAIN nodes = Survivors
                /\ Cardinality(b.members) = 3 * node_params.min_section_size - 1)

\* The cascade has ended in one section, and the merge of 10 and 11 into 1
\* that preceded it is among the valid blocks of a node.
C11_Witness ==
    /\ Started(cascading_merge)
    /\ Cardinality(removed) = 1
    /\ \E b \in UNION {nodes[name].current_blocks : name \in DOMAIN nodes} :
          EndedWith({b}) /\ b.prefix = EmptyPrefix
    /\ \E name \in DOMAIN nodes :
          \E b \in nodes[name].valid_blocks : b.prefix = ShortPrefix(1, 4)

\* C12: the run started from sections 00, 01, 10 and 11 of min_section_size
\* nodes each, with one node removed from 00 and one from 11 at step 0,
\* eventually ends, and ends with every live node agreeing on exactly two
\* sections, 0 and 1, whose members are all and only the surviving nodes.
C12_ParallelMerge ==
    <>[](Started(parallel_merge) =>
            \E b0, b1 \in UNION {nodes[name].current_blocks : name \in DOMAIN nodes} :
                /\ EndedWith({b0, b1})
                /\ b0.prefix = ShortPrefix(1, 0)
                /\ b1.prefix = ShortPrefix(1, 4)
                /\ b0.members = {n \in Survivors : matches(b0.prefix, n)}
                /\ b1.members = {n \in Survivors : matches(b1.prefix, n)}
                /\ DOMAIN nodes = Survivors
                /\ Cardinality(removed) = 2)

\* Both merges are under way at once: a node holds the merged section 0 as
\* current while 10 and 11 are still current, or the other way round.
C12_Witness ==
    /\ Started(parallel_merge)
    /\ Cardinality(removed) = 2
    /\ \E name \in DOMAIN nodes :
          \E b, c \in nodes[name].valid_blocks :
              /\ b.prefix = ShortPrefix(1, 0) /\ c.prefix = ShortPrefix(1, 4)
              /\ b.version = c.version

\* C13 as stated: the run started from sections 0 and 1 of min_section_size
\* nodes each, with a node removed from 0 at step 0 and a node added into 0 at
\* step 1, eventually ends, and ends with two sections 0 and 1 of their
\* initial sizes.
C13_OneJoinOneDrop ==
    <>[]((\E joining \in Names : Started(one_join_one_drop(joining))) =>
            \E b0, b1 \in UNION {nodes[name].current_blocks : name \in DOMAIN nodes} :
                /\ EndedWith({b0, b1})
                /\ b0.prefix = ShortPrefix(1, 0)
                /\ b1.prefix = ShortPrefix(1, 4)
                /\ Cardinality(b0.members) = node_params.min_section_size
                /\ Cardinality(b1.members) = node_params.min_section_size)

(***************************************************************************)
(* Claims about the validity engine and the selector                       *)
(***************************************************************************)
\* The edges of a vote graph that carry a quorum of the source's members and
\* lead to a block admissible after, or a prefix-neighbour of, the source.
quorum_edges(vote_counts) ==
    {e \in DOMAIN vote_counts :
        /\ is_neighbour(e[2].prefix, e[1].prefix) \/ is_admissible_after(e[2], e[1])
        /\ is_quorum_of(vote_counts[e], e[1].members)}

\* The least set that contains `blocks` and is closed under quorum_edges.
RECURSIVE valid_closure(_, _)
valid_closure(blocks, vote_counts) ==
    LET reached == blocks \cup {e[2] : e \in {e \in quorum_edges(vote_counts) : e[1] \in blocks}}
    IN IF reached = blocks THEN blocks ELSE valid_closure(reached, vote_counts)

\* The nodes about to run update_state whose update_valid_blocks returns.
Updating ==
    {name \in DOMAIN nodes :
        /\ pc = "update" /\ name \in todo
        /\ update_state_panics(nodes[name]) # "is_quorum_of"}

\* C14: after update_valid_blocks, the valid set of the node is the least set
\* that contains its initial blocks and is closed under the quorum edges of its
\* vote graph whose target is admissible after, or a neighbour of, the source.
C14_ValidIsClosure ==
    \A name \in Updating :
        LET n == update_valid_blocks(nodes[name])
        IN n.valid_blocks = valid_closure(genesis_set, n.vote_counts)

\* An update validates a block two quorum edges away from the blocks that
\* were valid before it.
C14_Witness ==
    \E name \in Updating :
        LET n == nodes[name]
            u == update_valid_blocks(n)
            near == {e[2] : e \in {e \in quorum_edges(n.vote_counts) : e[1] \in n.valid_blocks}}
        IN (u.valid_blocks \ n.valid_blocks) \ near # {}

(***************************************************************************)
(* Claims about the functions, under SpecSel                               *)
(***************************************************************************)
SelectDone == fn_in.kind = "select" /\ fn_out.done

\* C15: for a set of valid blocks whose prefixes cover the namespace, the
\* blocks compute_current_blocks selects from the candidates have pairwise
\* incompatible prefixes that together cover the namespace.
C15_SelectionIsPartition ==
    SelectDone =>
        /\ PairwiseIncompatible(fn_out.current)
        /\ CoversNames(fn_out.current)

\* The selection drops an outranked candidate and keeps several sections.
C15_Witness ==
    /\ SelectDone
    /\ fn_out.current # fn_out.candidates
    /\ Cardinality(fn_out.current) >= 2

\* The valid set is a parent block and one of its halves, of a higher version.
ParentAndHalf(parent, half) ==
    /\ fn_in.valid_blocks = {parent, half}
    /\ half.prefix # parent.prefix
    /\ popped(half.prefix) = parent.prefix
    /\ half.version > parent.version

\* C16: no candidate is current when another candidate has a shorter prefix
\* compatible with its own, whatever their versions; a valid set of a parent
\* block and one of its halves of a higher version selects the parent alone.
C16_ShorterPrefixWins ==
    SelectDone =>
        /\ \A b, c \in fn_out.candidates :
              (/\ c.prefix.bit_count < b.prefix.bit_count
               /\ \A name \in Names : matches(b.prefix, name) => matches(c.prefix, name))
                  => b \notin fn_out.current
        /\ \A parent, half \in fn_in.valid_blocks :
              ParentAndHalf(parent, half) => fn_out.current = {parent}

\* The half is a candidate and the parent alone is current.
C16_Witness ==
    /\ SelectDone
    /\ \E parent, half \in fn_in.valid_blocks :
          /\ ParentAndHalf(parent, half)
          /\ half \in fn_out.candidates
          /\ fn_out.current = {parent}

\* The three cases of admissibility.
AddOrRemoveCase(self, other) ==
    /\ self.prefix = other.prefix
    /\ \E n \in Names : \/ n \notin other.members /\ self.members = other.members \cup {n}
                        \/ n \in other.members /\ self.members = other.members \ {n}

SplitCase(self, other) ==
    /\ popped(self.prefix) = other.prefix
    /\ self.members = {n \in other.members : matches(self.prefix, n)}

MergeCase(self, other) ==
    /\ popped(other.prefix) = self.prefix
    /\ other.members = {n \in self.members : matches(other.prefix, n)}

CasesHolding(self, other) ==
    {c \in {"add_or_remove", "split", "merge"} :
        \/ c = "add_or_remove" /\ AddOrRemoveCase(self, other)
        \/ c = "split" /\ SplitCase(self, other)
        \/ c = "merge" /\ MergeCase(self, other)}

\* C17: self.is_admissible_after(other) is true exactly when the version of
\* self is greater and exactly one of the add-or-remove, split and merge cases
\* holds.
C17_AdmissibleIff ==
    (fn_in.kind = "admissible" /\ fn_out.done) =>
        (fn_out.result <=> (/\ fn_in.self.version > fn_in.other.version
                            /\ Cardinality(CasesHolding(fn_in.self, fn_in.other)) = 1))

\* Two blocks of the empty prefix with the same members: the split and the
\* merge case both hold and the block is not admissible.
C17_Witness ==
    /\ fn_in.kind = "admissible" /\ fn_out.done
    /\ fn_in.self.version > fn_in.other.version
    /\ Cardinality(CasesHolding(fn_in.self, fn_in.other)) = 2
    /\ ~ fn_out.result

\* C18 as stated: for every set of voters, with names outside the members or
\* not, is_quorum_of returns true exactly when twice the voters among the
\* members exceed the members, that is when they reach quorum(|members|).
C18_QuorumAnyVoters ==
    (fn_in.kind = "quorum" /\ fn_out.done) =>
        LET valid == Cardinality(fn_in.voters \cap fn_in.members)
            returns_true == ~ fn_out.panicked /\ fn_out.result
        IN /\ returns_true <=> (2 * valid > Cardinality(fn_in.members))
           /\ returns_true <=> (valid >= quorum(Cardinality(fn_in.members)))

\* C18: is_quorum_of returns exactly when every voter is a member, and then
\* it returns true exactly when twice the voters exceed the members, that is
\* when they reach quorum(|members|).
C18_QuorumOfMembers ==
    (fn_in.kind = "quorum" /\ fn_out.done) =>
        /\ ~ fn_out.panicked <=> (fn_in.voters \subseteq fn_in.members)
        /\ ~ fn_out.panicked =>
              /\ fn_out.result <=> (2 * Cardinality(fn_in.voters) > Cardinality(fn_in.members))
              /\ fn_out.result <=>
                    (Cardinality(fn_in.voters) >= quorum(Cardinality(fn_in.members)))

\* Half of an even number of members vote, all of them members: no quorum.
C18_Witness ==
    /\ fn_in.kind = "quorum" /\ fn_out.done
    /\ ~ fn_out.panicked /\ ~ fn_out.result
    /\ 2 * Cardinality(fn_in.voters) = Cardinality(fn_in.members)
    /\ fn_in.members # {}

\* The positions among the first k in which the names of p and q differ.
DiffBits(p, q, k) == {i \in 0 .. (k - 1) : Bit(p.name, i) # Bit(q.name, i)}

\* C19 as stated: p.is_neighbour(q) is true exactly when p and q have the same
\* bit_count and differ in exactly one of those bits.
C19_NeighbourSameLength ==
    (fn_in.kind = "neighbour" /\ fn_out.done) =>
        (fn_out.result <=> (/\ fn_in.p.bit_count = fn_in.q.bit_count
                            /\ Cardinality(DiffBits(fn_in.p, fn_in.q, fn_in.p.bit_count)) = 1))

\* C19: p.is_neighbour(q) is true exactly when p and q differ in exactly one
\* of the bits both of them have, those of the shorter of the two.
C19_NeighbourCommonBits ==
    (fn_in.kind = "neighbour" /\ fn_out.done) =>
        (fn_out.result <=>
            Cardinality(DiffBits(fn_in.p, fn_in.q,
                                 IF fn_in.p.bit_count <= fn_in.q.bit_count
                                 THEN fn_in.p.bit_count ELSE fn_in.q.bit_count)) = 1)

\* Prefixes of different lengths are neighbours.
C19_Witness ==
    /\ fn_in.kind = "neighbour" /\ fn_out.done
    /\ fn_out.result
    /\ fn_in.p.bit_count # fn_in.q.bit_count

\* C20: p.is_covered_by(S) is true exactly when every name p matches is
\* matched by a prefix of S.
C20_CoveredIff ==
    (fn_in.kind = "covered" /\ fn_out.done) =>
        (fn_out.result <=>
            \A name \in Names :
                matches(fn_in.p, name) => \E x \in fn_in.prefixes : matches(x, name))

\* p is covered by prefixes longer than itself, none of them a prefix of p.
C20_Witness ==
    /\ fn_in.kind = "covered" /\ fn_out.done
    /\ fn_out.result
    /\ \A x \in fn_in.prefixes : x.bit_count > fn_in.p.bit_count

(***************************************************************************)
(* Claims about the votes and the messages of a node                       *)
(***************************************************************************)
\* The edges of the vote graph of a live node.
Edges(name) == DOMAIN nodes[name].vote_counts

\* C21 as stated: every edge a node has recorded, witness edges included,
\* points to a block of a strictly newer version, so that no vote graph has
\* a cycle.
C21_EdgesPointNewer ==
    \A name \in DOMAIN nodes : \A e \in Edges(name) : e[2].version > e[1].version

\* C21: every edge a node has recorded points to a block of a strictly newer
\* version or to a block of another section, one whose prefix is incompatible
\* with the prefix of the source.
C21_OlderOnlyAcrossSections ==
    \A name \in DOMAIN nodes : \A e \in Edges(name) :
        e[2].version > e[1].version \/ ~ is_compatible(e[2].prefix, e[1].prefix)

\* Two sections have witnessed each other: the vote graph of a node has a
\* cycle of two witness edges.
C21_Witness ==
    \E name \in DOMAIN nodes : \E e \in Edges(name) :
        /\ <<e[2], e[1]>> \in Edges(name)
        /\ is_witnessing(Vote(e[1], e[2])) /\ is_witnessing(Vote(e[2], e[1]))

HandlerName == ShortName(0)

HandlerPeers == {ShortName(1), ShortName(4)}

\* The vote graph the responder of a request for proof may have recorded: the
\* edges of FnEdges and the edge that joins the conflicting branch to the
\* other.
ProofEdges ==
    FnEdges \cup {<<remove_node(FnGenesis, ShortName(4)),
                    add_node(remove_node(FnGenesis, ShortName(4)), ShortName(1))>>}

ProofBlocks == {e[1] : e \in ProofEdges} \cup {e[2] : e \in ProofEdges}

\* The votes of a graph: every voter of an edge is a member of its source.
ProofVoteCounts ==
    {vc \in UNION {[edges -> (SUBSET nodes_in_any(ProofBlocks)) \ {{}}] :
                       edges \in SUBSET ProofEdges} :
        \A e \in DOMAIN vc : vc[e] \subseteq e[1].members}

\* The responders: a node of the genesis section that has recorded the votes
\* and updated its valid blocks.
ProofNodes ==
    {update_valid_blocks(
         apply_bootstrap_msg(NewNode(HandlerName, {FnGenesis}, NodeParams(2, 1, 2), 0), vc)) :
        vc \in ProofVoteCounts}

\* The requests: a block of the graph and one or two current blocks of the
\* requester.
ProofInputs ==
    {[kind |-> "handle", node |-> n,
      message |-> Message(ShortName(4), HandlerName, RequestProof(block, current_blocks))] :
        n \in ProofNodes, block \in ProofBlocks,
        current_blocks \in {c \in SUBSET ProofBlocks : Cardinality(c) \in {1, 2}}}

\* A node with some peers connected and some connections requested, which may
\* have sent a Connect before, and a Connect or Disconnect of a peer.
ConnectInputs ==
    {[kind |-> "handle",
      node |-> [NewNode(HandlerName, {FnGenesis}, NodeParams(2, 1, 2), 0)
                    EXCEPT !.connections = connections,
                           !.connect_requests = connect_requests,
                           !.message_filter = message_filter],
      message |-> Message(peer, HandlerName, content)] :
        connections \in SUBSET HandlerPeers,
        connect_requests \in SUBSET HandlerPeers,
        message_filter \in {<<>>, <<Message(HandlerName, ShortName(4), Connect)>>},
        peer \in HandlerPeers,
        content \in {Connect, Disconnect}}

InitHandle ==
    /\ fn_in \in ProofInputs \cup ConnectInputs
    /\ fn_out = [done |-> FALSE]
    /\ messages = <<>>
    /\ max_delay = 1
    /\ step = 0
    /\ pc = "fn"
    /\ delivered = <<>>
    /\ net_log = {}
    /\ net_sent = 0
    /\ panicked = "none"
    /\ nodes = <<>>
    /\ genesis_set = {}
    /\ node_params = NodeParams(8, 1, 30)
    /\ todo = {}
    /\ events_left = 0
    /\ quiet_steps = 0
    /\ removed = {}
    /\ emitted = <<>>
    /\ event_schedule = <<>>

\* node.handle_message(message, blocks, step): the unwrap fails, or the node
\* and the messages to send are returned.
FnHandle ==
    /\ fn_in.kind = "handle" /\ ~ fn_out.done
    /\ fn_out' = IF handle_message_panics(fn_in.node, fn_in.message)
                 THEN [done |-> TRUE, panicked |-> TRUE, node |-> fn_in.node, msgs |-> <<>>]
                 ELSE LET r == handle_message(fn_in.node, fn_in.message, step)
                      IN [done |-> TRUE, panicked |-> FALSE, node |-> r.node, msgs |-> r.msgs]
    /\ UNCHANGED <<net_vars, sys_vars, fn_in>>

NextHandle == FnHandle

SpecHandle == InitHandle /\ [][NextHandle]_vars

(***************************************************************************)
(* Claims about the message handlers                                       *)
(***************************************************************************)
\* A request for proof has been handled.
ProofRequest ==
    /\ fn_in.kind = "handle" /\ fn_out.done /\ ~ fn_out.panicked
    /\ fn_in.message.content.type = "RequestProof"

\* The bundle is the edges, oldest first, of a path of quorum edges of node n
\* that ends at `block` and begins at a block `current_blocks` accepts.
IsProofChain(n, bundle, block, current_blocks) ==
    /\ Len(bundle) >= 1
    /\ bundle[Len(bundle)].vote.to = block
    /\ check_path(current_blocks, <<bundle[1].vote.from>>)
    /\ \A i \in 1 .. Len(bundle) - 1 : bundle[i].vote.to = bundle[i + 1].vote.from
    /\ \A i \in 1 .. Len(bundle) :
          LET e == <<bundle[i].vote.from, bundle[i].vote.to>>
          IN /\ e \in DOMAIN n.vote_counts
             /\ bundle[i].voters = n.vote_counts[e]
             /\ is_quorum(bundle[i].vote, bundle[i].voters)

\* The quorum edges of node n into `block`, with their voters.
QuorumEdgesInto(n, block) ==
    {[vote |-> Vote(e[1], e[2]), voters |-> n.vote_counts[e]] :
        e \in {e \in DOMAIN n.vote_counts :
                  e[2] = block /\ is_quorum(Vote(e[1], e[2]), n.vote_counts[e])}}

\* The blocks from which `seen` is reached along quorum edges of node n.
RECURSIVE BackwardClosure(_, _)
BackwardClosure(n, seen) ==
    LET more == UNION {{e[1] : e \in {e \in DOMAIN n.vote_counts :
                                         e[2] = b /\ is_quorum(Vote(e[1], e[2]),
                                                               n.vote_counts[e])}} :
                          b \in seen}
    IN IF more \subseteq seen THEN seen ELSE BackwardClosure(n, seen \cup more)

\* A path of two blocks or more leads back from `block` to a block that
\* `current_blocks` accepts.
HasProofPath(n, block, current_blocks) ==
    \E b \in BackwardClosure(n, {block}) :
        /\ check_path(current_blocks, <<b>>)
        /\ b # block \/ <<block, block>> \in DOMAIN n.vote_counts

\* The one reply is to the requester and has this content.
RepliedWith(content) ==
    fn_out.msgs = <<Message(fn_in.node.our_name, fn_in.message.sender, content)>>

Filtered(m) == m.content.type \notin {"Connect", "Disconnect"}

\* The vote messages the node would broadcast now, before the filter.
VotesToSend(name) ==
    LET n == nodes[name]
        votes == construct_new_votes(n, step)
    IN broadcast(n, [i \in 1 .. Len(votes) |-> VoteMsg(votes[i])], step)

UpdatedNode == Min(todo)

UpdateReturns ==
    /\ pc = "update" /\ panicked = "none" /\ todo # {}
    /\ update_state_panics(nodes[UpdatedNode]) = "none"

\* The agreement messages for the newly valid edges of node n that are not
\* witnessing, addressed with the current blocks of n before any is pruned.
AgreedUnpruned(n) ==
    LET n1 == update_valid_blocks(n)
    IN UNION {{Message(n.our_name, r, VoteAgreedMsg(vv)) :
                  r \in (recipients(VoteAgreedMsg(vv), n1.current_blocks, n.our_name)
                            \cup nodes_to_add(n1, step)) \ {n.our_name}} :
                 vv \in {vv \in new_valid_votes_of(n) : ~ is_witnessing(vv.vote)}}

\* What the update appends to the log of the node.
NewlyEmitted(name) ==
    {emitted'[name][i] : i \in Len(FnGet(emitted, name, <<>>)) + 1 .. Len(emitted'[name])}

ConnectHandled(type) ==
    /\ fn_in.kind = "handle" /\ fn_out.done /\ ~ fn_out.panicked
    /\ fn_in.message.content.type = type

\* C26 as stated: a Disconnect from a peer that is not connected changes
\* nothing and produces no message; a Connect from a peer in connect_requests
\* records the connection and produces no reply; a Connect from any other
\* peer produces one Connect reply and adds the peer to connect_requests.
C26_Idempotent ==
    LET n == fn_in.node
        peer == fn_in.message.sender
    IN /\ (ConnectHandled("Disconnect") /\ peer \notin n.connections)
              => fn_out.node = n /\ fn_out.msgs = <<>>
       /\ (ConnectHandled("Connect") /\ peer \in n.connect_requests)
              => /\ fn_out.node = [n EXCEPT !.connections = @ \cup {peer}]
                 /\ fn_out.msgs = <<>>
       /\ (ConnectHandled("Connect") /\ peer \notin n.connect_requests)
              => /\ fn_out.msgs = <<Message(n.our_name, peer, Connect)>>
                 /\ fn_out.node.connections = n.connections \cup {peer}
                 /\ fn_out.node.connect_requests = n.connect_requests \cup {peer}

\* C26: a Disconnect produces no message and removes the peer from the
\* connections and from connect_requests, so it changes nothing only when the
\* peer is in neither; a Connect from a peer in connect_requests records the
\* connection and produces no reply; a Connect from any other peer produces
\* one Connect reply and adds the peer to connect_requests.
C26_DisconnectCancelsRequest ==
    LET n == fn_in.node
        peer == fn_in.message.sender
    IN /\ ConnectHandled("Disconnect")
              => /\ fn_out.node = [n EXCEPT !.connections = @ \ {peer},
                                            !.connect_requests = @ \ {peer}]
                 /\ fn_out.msgs = <<>>
                 /\ (fn_out.node = n
                        <=> (peer \notin n.connections /\ peer \notin n.connect_requests))
       /\ (ConnectHandled("Connect") /\ peer \in n.connect_requests)
              => /\ fn_out.node = [n EXCEPT !.connections = @ \cup {peer}]
                 /\ fn_out.msgs = <<>>
       /\ (ConnectHandled("Connect") /\ peer \notin n.connect_requests)
              => /\ fn_out.msgs = <<Message(n.our_name, peer, Connect)>>
                 /\ fn_out.node.connections = n.connections \cup {peer}
                 /\ fn_out.node.connect_requests = n.connect_requests \cup {peer}

\* A Disconnect of a peer that was not connected has withdrawn the request
\* for a connection to it.
C26_Witness ==
    /\ ConnectHandled("Disconnect")
    /\ fn_in.message.sender \notin fn_in.node.connections
    /\ fn_in.message.sender \in fn_in.node.connect_requests
    /\ fn_in.message.sender \notin fn_out.node.connect_requests

(***************************************************************************)
(* Claims about the rules that construct votes                             *)
(***************************************************************************)
MergeDone == fn_in.kind = "merge" /\ fn_out.done

\* The current blocks of the argument that are below min_section_size and
\* have a sibling.
SmallBlocks ==
    {b \in fn_in.current_blocks :
        b.prefix.bit_count > 0 /\ Cardinality(b.members) < fn_in.min_section_size}

\* Prefix q is p or p with more bits.
EqualsOrExtends(q, p) ==
    /\ q.bit_count >= p.bit_count
    /\ \A i \in 0 .. p.bit_count - 1 : Bit(q.name, i) = Bit(p.name, i)

\* Prefixes p and q have the same length and differ in the last bit only.
AreSiblings(p, q) ==
    /\ p.bit_count = q.bit_count /\ p.bit_count > 0
    /\ Bit(p.name, p.bit_count - 1) # Bit(q.name, q.bit_count - 1)
    /\ \A i \in 0 .. p.bit_count - 2 : Bit(p.name, i) = Bit(q.name, i)

\* The parent block the merge of b and c is voted into.
MergedParent(b, c) ==
    Block(popped(b.prefix), Max({b.version, c.version}) + 1, b.members \cup c.members)

\* C27: the votes of merge_rule are, for every small current block b: from b
\* to its merge with each current block of b's sibling prefix, when the node is
\* a member of b; and otherwise from each own block whose prefix equals or
\* extends b's sibling prefix to its merge with each current block of the
\* own block's sibling prefix.
C27_SizeMergeVotes ==
    MergeDone =>
        fn_out.merge_rule =
            {Vote(bc[1], MergedParent(bc[1], bc[2])) :
                bc \in {bc \in SmallBlocks \X fn_in.current_blocks :
                           /\ fn_in.our_name \in bc[1].members
                           /\ AreSiblings(bc[1].prefix, bc[2].prefix)}}
            \cup
            {Vote(boc[2], MergedParent(boc[2], boc[3])) :
                boc \in {boc \in SmallBlocks \X fn_in.current_blocks \X fn_in.current_blocks :
                            /\ fn_in.our_name \notin boc[1].members
                            /\ fn_in.our_name \in boc[2].members
                            /\ EqualsOrExtends(boc[2].prefix, sibling(boc[1].prefix))
                            /\ AreSiblings(boc[2].prefix, boc[3].prefix)}}

\* A node outside the small block, in a section below the small block's
\* sibling prefix, has voted to merge its own section with its sibling.
C27_Witness ==
    /\ MergeDone
    /\ \E v \in fn_out.merge_rule : \E b \in SmallBlocks :
          /\ fn_in.our_name \notin b.members
          /\ fn_in.our_name \in v.from.members
          /\ v.from.prefix.bit_count > b.prefix.bit_count

\* At most half of the members of block c are connected to the node.
LostQuorumOf(c) ==
    2 * Cardinality(c.members \cap fn_in.connections) <= Cardinality(c.members)

\* C28: the votes of force_merge_rule are those from each own current block
\* to its merge with each current block of its sibling prefix that has lost
\* quorum, at most half of its members being connected, whatever the sizes
\* of the two sections.
C28_ForceMergeVotes ==
    MergeDone =>
        fn_out.force_merge_rule =
            {Vote(oc[1], MergedParent(oc[2], oc[1])) :
                oc \in {oc \in fn_in.current_blocks \X fn_in.current_blocks :
                           /\ fn_in.our_name \in oc[1].members
                           /\ AreSiblings(oc[1].prefix, oc[2].prefix)
                           /\ LostQuorumOf(oc[2])}}

\* The node has voted to merge with a sibling section of which exactly half
\* is connected, both sections having min_section_size members or more.
C28_Witness ==
    /\ MergeDone
    /\ \E v \in fn_out.force_merge_rule : \E c \in fn_in.current_blocks :
          /\ AreSiblings(v.from.prefix, c.prefix)
          /\ 2 * Cardinality(c.members \cap fn_in.connections) = Cardinality(c.members)
          /\ Cardinality(c.members) >= fn_in.min_section_size
          /\ Cardinality(v.from.members) >= fn_in.min_section_size
          /\ v.to = MergedParent(c, v.from)

\* The vote adds one node to its source block.
IsAddVote(v) ==
    /\ v.to.prefix = v.from.prefix
    /\ v.to.version = v.from.version + 1
    /\ v.from.members \subseteq v.to.members
    /\ Cardinality(v.to.members \ v.from.members) = 1

\* The node an add vote adds.
AddedBy(v) == CHOOSE c \in v.to.members \ v.from.members : TRUE

\* Both halves of block b have k members or more.
Splittable(b, k) ==
    \A half \in {0, 1} :
        Cardinality({m \in b.members : Bit(m, b.prefix.bit_count) = half}) >= k

\* The votes the update of a node has emitted.
VotesEmitted(name) ==
    {m.content.vote : m \in {m \in NewlyEmitted(name) : m.content.type = "Vote"}}

\* C29: every add vote b -> b.add_node(c) a node emits is from a current
\* block b that contains the node, for a candidate c that is connected and has
\* not timed out, that is not a member of b and that b's prefix matches, and
\* b does not have min_split_size members in both halves.
C29_AddVotesOnlyWhen ==
    [][(UpdateReturns /\ panicked' = "none")
          => \A v \in VotesEmitted(UpdatedNode) :
                IsAddVote(v) =>
                    LET n == nodes'[UpdatedNode]
                        c == AddedBy(v)
                    IN /\ v.from \in n.current_blocks
                       /\ UpdatedNode \in v.from.members
                       /\ c \in DOMAIN n.candidates
                       /\ c \in n.connections
                       /\ n.candidates[c] + n.params.join_timeout >= step
                       /\ c \notin v.from.members
                       /\ c \in {name \in Names :
                                    \A i \in 0 .. v.from.prefix.bit_count - 1 :
                                        Bit(name, i) = Bit(v.from.prefix.name, i)}
                       /\ ~ Splittable(v.from,
                                       n.params.min_section_size + n.params.split_buffer)]_vars

\* A node has emitted an add vote, and a node whose own current block should
\* split has a connected candidate of that section it has not voted to add.
C29_Witness ==
    /\ \E name \in DOMAIN emitted : \E i \in 1 .. Len(emitted[name]) :
          emitted[name][i].content.type = "Vote" /\ IsAddVote(emitted[name][i].content.vote)
    /\ \E name \in DOMAIN nodes :
          \E b \in our_blocks(nodes[name].current_blocks, name) :
              \E c \in (DOMAIN nodes[name].candidates) \cap nodes[name].connections :
                  /\ matches(b.prefix, c) /\ c \notin b.members
                  /\ Splittable(b, min_split_size(nodes[name]))
                  /\ <<b, add_node(b, c)>> \notin DOMAIN nodes[name].vote_counts

\* The vote is from a current block of node n that contains it to a block of
\* another section that has just become current.
ToNewForeignBlock(n, v) ==
    /\ v.from \in n.current_blocks
    /\ n.our_name \in v.from.members
    /\ v.to \in n.current_blocks
    /\ v.to \notin n.prev_current_blocks
    /\ ~ matches(v.to.prefix, n.our_name)

\* C30: every vote a node emits whose target is not admissible after its
\* source is from a current block that contains the node to a block that is
\* current, was not current before the update, and has a prefix that does
\* not match the node's name; and every emitted vote of that kind is a
\* witnessing edge.
C30_WitnessVotesOnlyWhen ==
    [][(UpdateReturns /\ panicked' = "none")
          => \A v \in VotesEmitted(UpdatedNode) :
                is_witnessing(v) <=> ToNewForeignBlock(nodes'[UpdatedNode], v)]_vars

\* A node has witnessed a block of another section of a version lower than
\* that of its own block.
C30_Witness ==
    \E name \in DOMAIN emitted : \E i \in 1 .. Len(emitted[name]) :
        /\ emitted[name][i].content.type = "Vote"
        /\ is_witnessing(emitted[name][i].content.vote)
        /\ name \in emitted[name][i].content.vote.from.members
        /\ ~ matches(emitted[name][i].content.vote.to.prefix, name)
        /\ emitted[name][i].content.vote.to.version
               < emitted[name][i].content.vote.from.version

(***************************************************************************)
(* Claims about the votes a node casts and stores                          *)
(***************************************************************************)
\* The Vote messages node `name` has emitted, as votes.
VotesSent(name) ==
    {emitted[name][i].content.vote :
        i \in {i \in 1 .. Len(emitted[name]) : emitted[name][i].content.type = "Vote"}}

\* The voters node n has recorded for the edge of vote v.
VotersOf(n, v) == FnGet(n.vote_counts, <<v.from, v.to>>, {})

\* C31: when a node has emitted a Vote message for an edge, its own vote graph
\* records the node as a voter on that edge: the vote is cast by the node
\* itself before it is broadcast, and stays recorded afterwards.
C31_VotesSelfCast ==
    \A name \in (DOMAIN emitted) \cap (DOMAIN nodes) :
        \A v \in VotesSent(name) :
            /\ <<v.from, v.to>> \in DOMAIN nodes[name].vote_counts
            /\ name \in VotersOf(nodes[name], v)
            /\ name \in FnGet(nodes[name].rev_vote_counts, <<v.to, v.from>>, {})

\* A node has emitted a vote for an edge on which the voters it has recorded
\* are a quorum of the source block only with its own vote.
C31_Witness ==
    \E name \in (DOMAIN emitted) \cap (DOMAIN nodes) :
        \E v \in VotesSent(name) :
            /\ is_quorum_of(VotersOf(nodes[name], v), v.from.members)
            /\ ~ is_quorum_of(VotersOf(nodes[name], v) \ {name}, v.from.members)

(***************************************************************************)
(* Blocks::new_valid_blocks run pass by pass on vote graphs drawn by       *)
(* InitValid                                                               *)
(***************************************************************************)
\* Two neighbouring sections and a successor of each.
ValA0 == Section(1, 0, {0, 1})

ValB0 == Section(1, 4, {4, 5})

ValA1 == add_node(ValA0, ShortName(2))

ValB1 == remove_node(ValB0, ShortName(5))

\* The edges of the vote graphs: the two successions, witness edges in both
\* directions between the sections, and an edge back to an older block.
ValEdges ==
    {<<ValA0, ValA1>>, <<ValB0, ValB1>>,
     <<ValA0, ValB0>>, <<ValB0, ValA0>>,
     <<ValA1, ValB1>>, <<ValB1, ValA1>>,
     <<ValA1, ValA0>>}

\* The vote graphs: each stored edge has the votes of every member of its
\* source, or of one of them.
ValVoteCounts ==
    UNION {{[e \in edges |-> IF full[e] THEN e[1].members ELSE {Min(e[1].members)}] :
               full \in [edges -> BOOLEAN]} :
              edges \in SUBSET ValEdges}

\* The arguments of new_valid_blocks: the new votes are all the stored edges,
\* or those from the blocks of the first section.
ValidInputs ==
    UNION {{[kind |-> "valid", valid_blocks |-> valid, vote_counts |-> vc, new_votes |-> new] :
               valid \in {{ValA0, ValB0}, {ValA0}},
               new \in {{Vote(e[1], e[2]) : e \in DOMAIN vc},
                         {Vote(e[1], e[2]) : e \in {e \in DOMAIN vc : e[1].prefix = ValA0.prefix}}}} :
              vc \in ValVoteCounts}

InitValid ==
    /\ fn_in \in ValidInputs
    /\ fn_out = [done |-> FALSE]
    /\ messages = <<>>
    /\ max_delay = 1
    /\ step = 0
    /\ pc = "fn"
    /\ delivered = <<>>
    /\ net_log = {}
    /\ net_sent = 0
    /\ panicked = "none"
    /\ nodes = <<>>
    /\ genesis_set = {}
    /\ node_params = NodeParams(8, 1, 30)
    /\ todo = {}
    /\ events_left = 0
    /\ quiet_steps = 0
    /\ removed = {}
    /\ event_schedule = <<>>
    /\ emitted = <<>>

\* new_valid_blocks is entered: the frontier is built from the new votes.
FnValidStart ==
    /\ fn_in.kind = "valid" /\ fn_out = [done |-> FALSE]
    /\ fn_out' = [done |-> FALSE,
                  frontier |-> initial_frontier(fn_in.valid_blocks, fn_in.new_votes),
                  visited_edges |-> {},
                  new_valid_votes |-> {}]
    /\ UNCHANGED <<net_vars, sys_vars, fn_in>>

\* The loop is being run.
InValidLoop ==
    fn_in.kind = "valid" /\ ~ fn_out.done /\ "frontier" \in DOMAIN fn_out

\* One pass of `while !frontier.is_empty()`.
FnValidPass ==
    /\ InValidLoop /\ fn_out.frontier # {}
    /\ LET st == frontier_step(fn_in.valid_blocks, fn_in.vote_counts, fn_out)
       IN fn_out' = [done |-> FALSE,
                     frontier |-> st.frontier,
                     visited_edges |-> st.visited_edges,
                     new_valid_votes |-> st.new_valid_votes]
    /\ UNCHANGED <<net_vars, sys_vars, fn_in>>

\* The frontier is empty: new_valid_blocks returns new_valid_votes.
FnValidReturn ==
    /\ InValidLoop /\ fn_out.frontier = {}
    /\ fn_out' = [fn_out EXCEPT !.done = TRUE]
    /\ UNCHANGED <<net_vars, sys_vars, fn_in>>

NextValid == FnValidStart \/ FnValidPass \/ FnValidReturn

SpecValid == InitValid /\ [][NextValid]_vars

\* The function runs on once called: the pass in hand is eventually made.
SpecValidLive == SpecValid /\ WF_vars(NextValid)

(***************************************************************************)
(* Claims about the validity engine's loop                                 *)
(***************************************************************************)
\* The edges in the frontier of the pass in hand.
FrontierEdges == {f.vote : f \in fn_out.frontier}

\* C32: new_valid_blocks returns for every vote graph and every set of new
\* votes, cycles of witness edges included: no edge is in the frontier of two
\* passes, so there are no more passes than stored edges and starting blocks,
\* and what is returned is what the loop computes as a whole.
C32_Terminates ==
    /\ <>(fn_out.done)
    /\ [](InValidLoop =>
             /\ FrontierEdges \cap fn_out.visited_edges = {}
             /\ fn_out.visited_edges \subseteq
                    {Vote(e[1], e[2]) : e \in DOMAIN fn_in.vote_counts}
                        \cup {f.vote : f \in initial_frontier(fn_in.valid_blocks,
                                                              fn_in.new_votes)})
    /\ [](fn_out.done =>
             fn_out.new_valid_votes
                 = new_valid_blocks(fn_in.valid_blocks, fn_in.vote_counts, fn_in.new_votes))

\* new_valid_blocks has returned after following witness edges with a quorum
\* from one section to its neighbour and back.
C32_Witness ==
    /\ fn_in.kind = "valid" /\ fn_out.done
    /\ \E v, w \in fn_out.visited_edges :
          /\ v.from # v.to
          /\ w.from = v.to /\ w.to = v.from
    /\ fn_out.new_valid_votes # {}

\* C33: in every node's vote graph the voters recorded for an edge, in the
\* forward and in the reverse index, are members of the edge's source block,
\* so the quorum check finds no voter outside the members and its assertion
\* does not fail.
C33_VotersAreMembers ==
    /\ panicked # "is_quorum_of"
    /\ \A name \in DOMAIN nodes :
          /\ \A e \in DOMAIN nodes[name].vote_counts :
                /\ nodes[name].vote_counts[e] \subseteq e[1].members
                /\ ~ quorum_assert_fails(nodes[name].vote_counts[e], e[1].members)
          /\ \A r \in DOMAIN nodes[name].rev_vote_counts :
                nodes[name].rev_vote_counts[r] \subseteq r[2].members

\* A node has recorded a merge edge with two or more voters, none of them
\* itself, and another edge it has voted for.
C33_Witness ==
    \E name \in DOMAIN nodes :
        /\ \E e \in DOMAIN nodes[name].vote_counts :
              /\ e[2].prefix.bit_count < e[1].prefix.bit_count
              /\ Cardinality(nodes[name].vote_counts[e]) >= 2
              /\ name \notin nodes[name].vote_counts[e]
        /\ \E e \in DOMAIN nodes[name].vote_counts : name \in nodes[name].vote_counts[e]

\* The reverse index of node n holds the edges of the forward index, turned
\* round, with the same voters.
Mirrors(n) ==
    /\ DOMAIN n.rev_vote_counts = {<<e[2], e[1]>> : e \in DOMAIN n.vote_counts}
    /\ \A e \in DOMAIN n.vote_counts :
          n.rev_vote_counts[<<e[2], e[1]>>] = n.vote_counts[e]

\* A request for a proof is about to be handled by a live node.
ProofRequested ==
    /\ pc = "handle" /\ panicked = "none" /\ delivered # <<>>
    /\ Head(delivered).content.type = "RequestProof"
    /\ Head(delivered).recipient \in DOMAIN nodes

\* C34: in every node the reverse vote index mirrors the forward one, edge by
\* edge and voter set by voter set, so the forward lookup of an edge that
\* construct_proof has found in the reverse index does not fail.
C34_ReverseMirrorsForward ==
    /\ \A name \in DOMAIN nodes : Mirrors(nodes[name])
    /\ ProofRequested =>
          ~ construct_proof_panics(nodes[Head(delivered).recipient],
                                   Head(delivered).content.block,
                                   Head(delivered).content.current_blocks)

\* A node is asked for a proof of a block for which it finds a path of two or
\* more edges, one of them with voters recorded by more than one add_vote.
C34_Witness ==
    /\ ProofRequested
    /\ LET n == nodes[Head(delivered).recipient]
           block == Head(delivered).content.block
           current_blocks == Head(delivered).content.current_blocks
       IN /\ block \in n.valid_blocks
          /\ ~ check_path(current_blocks, <<block>>)
          /\ Len(found_path(n, block, current_blocks)) >= 3
          /\ \E e \in DOMAIN n.vote_counts : Cardinality(n.vote_counts[e]) >= 2

(***************************************************************************)
(* Claims about the current blocks of a node                               *)
(***************************************************************************)
\* The driver is about to call update_state on the node UpdatedNode.
UpdateCalled == pc = "update" /\ panicked = "none" /\ todo # {}

\* The current blocks of node n as update_valid_blocks leaves them, before
\* prune_split_blocks.
Unpruned(n) == update_valid_blocks(n).current_blocks

\* C35: whenever update_state is called on a node, the current set before
\* pruning has a block whose prefix matches the node's name, so the index into
\* the section blocks in prune_split_blocks does not fail; and the blocks of
\* that set that match the node's name are all in the current set the update
\* leaves.
C35_OwnSectionBlockKept ==
    /\ [](panicked # "prune_split_blocks")
    /\ [](\A name \in DOMAIN nodes : section_blocks(Unpruned(nodes[name]), name) # {})
    /\ [][(UpdateCalled /\ panicked' = "none")
             => /\ section_blocks(nodes'[UpdatedNode].current_blocks, UpdatedNode) # {}
                /\ section_blocks(Unpruned(nodes[UpdatedNode]), UpdatedNode)
                       \subseteq nodes'[UpdatedNode].current_blocks]_vars

\* update_state is called on a node that joined after the start and is in no
\* block it holds, and its update prunes a block.
C35_Witness ==
    /\ UpdateReturns
    /\ nodes[UpdatedNode].step_created > 0
    /\ our_blocks(Unpruned(nodes[UpdatedNode]), UpdatedNode) = {}
    /\ \E first \in section_blocks(Unpruned(nodes[UpdatedNode]), UpdatedNode) :
          prune_split_blocks(update_valid_blocks(nodes[UpdatedNode]), first).current_blocks
              # Unpruned(nodes[UpdatedNode])

(***************************************************************************)
(* Claims about the blocks the rules create                                *)
(***************************************************************************)
\* The votes of the merge rules for the view of node n.
SizeMergeVotes(n) == merge_rule(n.current_blocks, n.our_name, n.params.min_section_size)

ForceMergeVotes(n) == force_merge_rule(n.current_blocks, n.connections, n.our_name)

SplitVotes(n) == split_blocks(n.current_blocks, n.our_name, min_split_size(n))

\* C36: for the view of every node in every reachable state, each vote of the
\* add, drop, split, size-merge and force-merge rules has a target that is
\* admissible after its source: the target's version is higher, and the
\* target adds or removes one member, is a half of the source on the longer
\* prefix, or is the union of the source and its sibling on the shorter one.
C36_RuleVotesAdmissible ==
    \A name \in DOMAIN nodes :
        LET n == nodes[name] IN
        /\ \A v \in add_votes_of(n, step) \cup drop_votes_of(n) :
              /\ v.to.version > v.from.version
              /\ AddOrRemoveCase(v.to, v.from)
              /\ is_admissible_after(v.to, v.from)
        /\ \A v \in SplitVotes(n) :
              /\ v.to.version > v.from.version
              /\ SplitCase(v.to, v.from)
              /\ is_admissible_after(v.to, v.from)
        /\ \A v \in SizeMergeVotes(n) \cup ForceMergeVotes(n) :
              /\ v.to.version > v.from.version
              /\ MergeCase(v.to, v.from)
              /\ is_admissible_after(v.to, v.from)

\* In one state the views of the nodes give an add vote, a drop vote and a
\* merge vote.
C36_Witness ==
    /\ \E name \in DOMAIN nodes : add_votes_of(nodes[name], step) # {}
    /\ \E name \in DOMAIN nodes : drop_votes_of(nodes[name]) # {}
    /\ \E name \in DOMAIN nodes :
          SizeMergeVotes(nodes[name]) \cup ForceMergeVotes(nodes[name]) # {}

\* Every member of the block matches the block's prefix.
WellFormed(b) == \A m \in b.members : matches(b.prefix, m)

\* The blocks node n holds or has seen a vote for, and the targets of the
\* votes its rules give for its view.
BlocksKnown(n) ==
    n.valid_blocks \cup n.current_blocks \cup n.current_candidate_blocks
        \cup {e[1] : e \in DOMAIN n.vote_counts} \cup {e[2] : e \in DOMAIN n.vote_counts}
        \cup {v.to : v \in add_votes_of(n, step) \cup drop_votes_of(n) \cup SplitVotes(n)
                               \cup SizeMergeVotes(n) \cup ForceMergeVotes(n)}

\* C37: every block the network is generated with, and every block a node
\* holds, has seen a vote for or is given by its add, drop, split and merge
\* rules, has only members that match its prefix.
C37_BlocksWellFormed ==
    /\ \A b \in genesis_set : WellFormed(b)
    /\ \A name \in DOMAIN nodes : \A b \in BlocksKnown(nodes[name]) : WellFormed(b)

\* A node has recorded a vote that adds a member and a vote that merges two
\* sections.
C37_Witness ==
    \E name \in DOMAIN nodes :
        /\ \E e \in DOMAIN nodes[name].vote_counts :
              /\ e[2].prefix = e[1].prefix
              /\ Cardinality(e[2].members) > Cardinality(e[1].members)
        /\ \E e \in DOMAIN nodes[name].vote_counts :
              /\ e[2].prefix.bit_count < e[1].prefix.bit_count
              /\ MergeCase(e[2], e[1])

(***************************************************************************)
(* Runs of the driver in which two nodes set up a connection: started by   *)
(* connects_and_disconnects on one side or on both, or by the reply to a   *)
(* NodeJoined message                                                      *)
(***************************************************************************)
\* A section of two nodes, and a third that may join it.
ConnSection == Section(0, 0, {0, 4})

ConnJoiner == ShortName(2)

\* The delays the network of these runs is built with: a message may take a
\* step more than another where no node joins.
ConnDelays(schedule) == IF schedule = <<>> THEN {1, 2} ELSE {1}

\* Each scenario gives the connections the two nodes start with. A node that
\* lacks the other has been disconnected from it and holds it in a current
\* block again.
ConnScenarios ==
    {[connections |-> [name \in ConnSection.members |-> ConnSection.members \ lacking[name]],
      schedule |-> schedule] :
        lacking \in {[name \in ConnSection.members |-> {}],
                     [name \in ConnSection.members |->
                         IF name = ShortName(0) THEN {ShortName(4)} ELSE {}],
                     [name \in ConnSection.members |-> ConnSection.members \ {name}]},
        schedule \in {<<>>, <<At(0, EventAddNode(ConnJoiner))>>, <<At(1, EventAddNode(ConnJoiner))>>}}

InitConn ==
    /\ \E scenario \in ConnScenarios :
          /\ nodes = [name \in ConnSection.members |->
                         [NewNode(name, {ConnSection}, NodeParams(1, 1, 2), 0)
                             EXCEPT !.connections = scenario.connections[name]]]
          /\ event_schedule = scenario.schedule
          /\ events_left = Len(scenario.schedule)
          /\ max_delay \in ConnDelays(scenario.schedule)
    /\ genesis_set = {ConnSection}
    /\ node_params = NodeParams(1, 1, 2)
    /\ messages = <<>>
    /\ step = 0
    /\ pc = "events"
    /\ delivered = <<>>
    /\ net_log = {}
    /\ net_sent = 0
    /\ panicked = "none"
    /\ todo = {}
    /\ quiet_steps = 0
    /\ removed = {}
    /\ emitted = <<>>
    /\ FnIdle

SpecConn == InitConn /\ [][NextSched]_vars

\* Simulation::run loops without pausing: the step in hand is eventually taken.
SpecConnLive ==
    /\ SpecConn
    /\ WF_event_schedule(EventStep)
    /\ WF_pc(PhaseStep)
    /\ WF_delivered(HandleStep)
    /\ WF_todo(UpdateStep)

(***************************************************************************)
(* Claims about connections                                                *)
(***************************************************************************)
\* The messages on their way: queued in the network, or received and not
\* yet handled.
InFlight == QueuedMsgs \cup SeqRange(delivered)

\* The number of Connect messages node x has returned for node y.
ConnectsSent(x, y) ==
    Cardinality({i \in 1 .. Len(FnGet(emitted, x, <<>>)) :
                    /\ emitted[x][i].content = Connect
                    /\ emitted[x][i].recipient = y})

\* A Disconnect has been sent between x and y.
DisconnectBetween(x, y) ==
    \/ \E m \in InFlight :
          m.content = Disconnect /\ {m.sender, m.recipient} = {x, y}
    \/ \E s \in {x, y} : \E i \in 1 .. Len(FnGet(emitted, s, <<>>)) :
          emitted[s][i].content = Disconnect /\ emitted[s][i].recipient \in {x, y}

\* No Connect is on its way between x and y.
ConnectsDelivered(x, y) ==
    ~ \E m \in InFlight : m.content = Connect /\ {m.sender, m.recipient} = {x, y}

\* C38: the run of every scenario ends, so no Connect is answered for ever;
\* a node returns at most two Connect messages for a peer, three pass
\* between a pair at most, and when the Connects between two live nodes that
\* have exchanged one are delivered and no Disconnect has passed between
\* them, each has the other in its connections.
C38_ConnectExchangeEnds ==
    /\ <>[](pc = "done" /\ panicked = "none")
    /\ [](\A x, y \in DOMAIN nodes :
             x # y =>
                /\ ConnectsSent(x, y) <= 2
                /\ ConnectsSent(x, y) + ConnectsSent(y, x) <= 3
                /\ (/\ ConnectsSent(x, y) > 0
                    /\ ConnectsDelivered(x, y)
                    /\ ~ DisconnectBetween(x, y))
                       => y \in nodes[x].connections /\ x \in nodes[y].connections)

\* The run has ended; a pair has exchanged three Connect messages after a
\* NodeJoined message and another pair two, and all are connected.
C38_Witness ==
    /\ pc = "done"
    /\ \E x, y \in DOMAIN nodes : ConnectsSent(x, y) = 2 /\ ConnectsSent(y, x) = 1
    /\ \E x, y \in DOMAIN nodes : ConnectsSent(x, y) = 1 /\ ConnectsSent(y, x) = 1
    /\ ConnJoiner \in DOMAIN nodes
    /\ \A x, y \in DOMAIN nodes : x # y => y \in nodes[x].connections

(***************************************************************************)
(* Claims about what the network keeps of the messages it was given.       *)
(***************************************************************************)
\* The places (connection, step, index) at which the message sent as number
\* `tag` is queued.
QueuedAt(tag) ==
    UNION {{<<q[1], q[2], i>> : i \in {j \in 1 .. Len(messages[q[1]][q[2]]) :
                                        messages[q[1]][q[2]][j].content.tag = tag}} :
              q \in queued(messages)}

\* The receive calls (by step) that returned the message sent as number `tag`.
ReturnedAt(tag) == {e \in net_log : e.msg.content.tag = tag}

\* The step at which the message sent as number `tag` was passed to send.
SentAt(tag) ==
    LET known == {e.msg.content.sent : e \in ReturnedAt(tag)}
                 \cup {q[2] : q \in QueuedAt(tag)}
    IN IF known = {} THEN 0 ELSE Min(known)

\* receive has been called at the deadline of a message sent at step `sent`.
DeadlinePassed(sent) ==
    \/ step > sent + max_delay
    \/ step = sent + max_delay /\ pc = "post"

\* C39: the network neither loses nor duplicates a message: a message passed to
\* send is queued at one place or was returned by one receive call, never both
\* and never twice, and once receive has been called at every step up to the
\* message's deadline it has been returned by exactly one call and no bucket
\* holds it.
C39_NoLossNoDuplicate ==
    \A tag \in 0 .. net_sent - 1 :
        /\ Cardinality(QueuedAt(tag)) + Cardinality(ReturnedAt(tag)) = 1
        /\ (panicked = "none" /\ DeadlinePassed(SentAt(tag)))
              => Cardinality(ReturnedAt(tag)) = 1 /\ QueuedAt(tag) = {}

(***************************************************************************)
(* Claims about the candidates a node keeps from update to update.         *)
(***************************************************************************)
\* The candidates selected from all the valid blocks of the node at once.
CandidatesOfValid(n) == compute_current_candidate_blocks(n.valid_blocks)

\* C40: the candidates a node maintains from update to update (the previous
\* candidates and the targets of the newly valid votes, filtered again) are at
\* every moment the candidates compute_current_candidate_blocks selects from all
\* its valid blocks, so its current blocks before pruning are determined by its
\* valid blocks alone: they contain every pruned current block, and two nodes
\* with the same valid blocks keep the same candidates.
C40_CandidatesFromValid ==
    /\ \A name \in DOMAIN nodes :
          /\ nodes[name].current_candidate_blocks = CandidatesOfValid(nodes[name])
          /\ nodes[name].current_blocks
                \subseteq compute_current_blocks(CandidatesOfValid(nodes[name]))
    /\ \A x, y \in DOMAIN nodes :
          nodes[x].valid_blocks = nodes[y].valid_blocks
             => nodes[x].current_candidate_blocks = nodes[y].current_candidate_blocks

\* A node has valid blocks of three versions, one of them no longer a candidate,
\* and another node holds the same valid blocks.
C40_Witness ==
    \E x, y \in DOMAIN nodes :
        /\ x # y
        /\ nodes[x].valid_blocks = nodes[y].valid_blocks
        /\ Cardinality({b.version : b \in nodes[x].valid_blocks}) >= 3
        /\ nodes[x].current_candidate_blocks # nodes[x].valid_blocks

====
